---- MODULE Spec2Model ----
(***************************************************************************)
(* Model of the rigid body simulator ysym (src/yocto/yocto_sym.h).         *)
(*                                                                         *)
(* Numbers.  A C++ float is modelled as a fixed point number: the integer  *)
(* a stands for the real a / Scale.  Addition and subtraction are exact,   *)
(* multiplication, division and square root round to the nearest           *)
(* representable value, as the float operations do.  Scale is chosen so    *)
(* that every constant of the program (0.01, 0.6, 0.25, 9.82, 1/6, 1/60,   *)
(* 1/120) is representable.  The three non-finite floats are three         *)
(* integers outside the finite range; signed zeros are not modelled.       *)
(*                                                                         *)
(* Vectors are triples <<x, y, z>> (the code's v[0], v[1], v[2] are        *)
(* v[1], v[2], v[3] here), matrices are triples of columns, frames are     *)
(* <<x, y, z, o>> with the rotation in the first three columns.            *)
(***************************************************************************)
EXTENDS Integers, Sequences, FiniteSets, TLC

\* ------------------------------------------------------------------------
\* float
\* ------------------------------------------------------------------------

Scale == 38400
NaN == 2000000000
PInf == 1999999999
NInf == -1999999999
\* std::numeric_limits<float>::max(): the largest finite value
FltMax == 1999999998

Flt == Int
Vec == Seq(Int)
Mat == Seq(Seq(Int))

IsNaN(a) == a = NaN
IsInf(a) == a = PInf \/ a = NInf
isfinite(a) == ~IsNaN(a) /\ ~IsInf(a)

Abs(a) == IF a < 0 THEN -a ELSE a
Sgn(a) == IF a > 0 THEN 1 ELSE IF a < 0 THEN -1 ELSE 0
SInf(s) == IF s > 0 THEN PInf ELSE NInf

\* float comparisons: every comparison with a NaN is false
Gt(a, b) == ~IsNaN(a) /\ ~IsNaN(b) /\ a > b
Lt(a, b) == ~IsNaN(a) /\ ~IsNaN(b) /\ a < b
Le(a, b) == ~IsNaN(a) /\ ~IsNaN(b) /\ a <= b
FEq(a, b) == ~IsNaN(a) /\ ~IsNaN(b) /\ a = b

Neg[a \in Flt] == IF IsNaN(a) THEN NaN ELSE -a

\* a finite result beyond the finite range overflows to an infinity
Fin(a) == IF a > FltMax THEN PInf ELSE IF a < -FltMax THEN NInf ELSE a

Add[a \in Flt, b \in Flt] ==
    IF IsNaN(a) \/ IsNaN(b) THEN NaN
    ELSE IF IsInf(a) THEN (IF IsInf(b) /\ b # a THEN NaN ELSE a)
    ELSE IF IsInf(b) THEN b
    ELSE IF Abs(a) > 1000000000 \/ Abs(b) > 1000000000
         THEN (IF Sgn(a) # Sgn(b) THEN a + b
               ELSE IF Abs(a) + (Abs(b) - FltMax) > 0 THEN SInf(Sgn(a))
               ELSE a + b)
    ELSE a + b

Sub[a \in Flt, b \in Flt] == Add[a, Neg[b]]

\* round(a * b / Scale) on finite values, computed in 32 bit pieces
MulFin[a \in Flt, b \in Flt] ==
    LET x == Abs(a)
        y == Abs(b)
        s == Sgn(a) * Sgn(b)
    IN  IF x < 46340 /\ y < 46340
        THEN s * ((x * y + Scale \div 2) \div Scale)
        ELSE LET xh == x \div Scale
                 xl == x % Scale
                 yh == y \div Scale
                 yl == y % Scale
             IN  s * (xh * yh * Scale + xh * yl + xl * yh
                      + (xl * yl + Scale \div 2) \div Scale)

Mul[a \in Flt, b \in Flt] ==
    IF IsNaN(a) \/ IsNaN(b) THEN NaN
    ELSE IF IsInf(a) \/ IsInf(b)
         THEN (IF a = 0 \/ b = 0 THEN NaN ELSE SInf(Sgn(a) * Sgn(b)))
    ELSE IF a = 0 \/ b = 0 THEN 0
    ELSE IF Abs(a) \div Scale + 1 > 52000 \div (Abs(b) \div Scale + 1)
         THEN SInf(Sgn(a) * Sgn(b))
    ELSE MulFin[a, b]

\* round(a * Scale / b) on finite values, b # 0, by long division
DivFin[a \in Flt, b \in Flt] ==
    LET x == Abs(a)
        y == Abs(b)
        s == Sgn(a) * Sgn(b)
        q == x \div y
        r == x % y
    IN  IF y < 55000
        THEN s * (q * Scale + (r * Scale + y \div 2) \div y)
        ELSE LET t  == r * 192
                 q2 == t \div y
                 r2 == t % y
             IN  s * (q * Scale + q2 * 200 + (r2 * 200 + y \div 2) \div y)

Div[a \in Flt, b \in Flt] ==
    IF IsNaN(a) \/ IsNaN(b) THEN NaN
    ELSE IF IsInf(a) THEN (IF IsInf(b) THEN NaN
                           ELSE SInf(Sgn(a) * (IF b < 0 THEN -1 ELSE 1)))
    ELSE IF IsInf(b) THEN 0
    ELSE IF b = 0 THEN (IF a = 0 THEN NaN ELSE SInf(Sgn(a)))
    ELSE IF Abs(a) \div Abs(b) >= 52000 THEN SInf(Sgn(a) * Sgn(b))
    ELSE DivFin[a, b]

\* the float of the integer literal n, and of the decimal n / d
Lit(n) == n * Scale
Dec(n, d) == (n * Scale) \div d

ISqrtIn[n \in Flt, lo \in Flt, hi \in Flt] ==
    IF lo >= hi THEN lo
    ELSE LET mid == (lo + hi + 1) \div 2
         IN  IF mid * mid <= n THEN ISqrtIn[n, mid, hi]
             ELSE ISqrtIn[n, lo, mid - 1]

\* floor of the square root of the non-negative integer n
ISqrt[n \in Flt] == ISqrtIn[n, 0, 46340]

Sqrt[a \in Flt] ==
    IF IsNaN(a) \/ a < 0 THEN NaN
    ELSE IF a = PInf THEN PInf
    ELSE IF a < 55000 THEN ISqrt[a * Scale]
    ELSE ISqrt[a * 384] * 10

\* pi, rounded to the grid
pif == 120637

\* the Taylor polynomials of sin (degree 9) and cos (degree 8), from a and
\* its square
SinTaylor[a \in Flt, a2 \in Flt] ==
    Mul[a, Sub[Scale,
               Mul[Div[a2, 6 * Scale],
                   Sub[Scale,
                       Mul[Div[a2, 20 * Scale],
                           Sub[Scale,
                               Mul[Div[a2, 42 * Scale],
                                   Sub[Scale, Div[a2, 72 * Scale]]]]]]]]]
CosTaylor[a2 \in Flt] ==
    Sub[Scale,
        Mul[Div[a2, 2 * Scale],
            Sub[Scale,
                Mul[Div[a2, 12 * Scale],
                    Sub[Scale,
                        Mul[Div[a2, 30 * Scale],
                            Sub[Scale, Div[a2, 56 * Scale]]]]]]]]

\* sin and cos of a in [-pi, pi], folded into [-pi/2, pi/2]
SinFolded[a \in Flt] ==
    IF a > pif \div 2 THEN SinTaylor[pif - a, Mul[pif - a, pif - a]]
    ELSE IF a < -(pif \div 2) THEN SinTaylor[-pif - a, Mul[pif + a, pif + a]]
    ELSE SinTaylor[a, Mul[a, a]]
CosFolded[a \in Flt] ==
    IF a > pif \div 2 THEN Neg[CosTaylor[Mul[pif - a, pif - a]]]
    ELSE IF a < -(pif \div 2) THEN Neg[CosTaylor[Mul[pif + a, pif + a]]]
    ELSE CosTaylor[Mul[a, a]]

\* a finite angle reduced to (-pi, pi]
ReduceAngle[a \in Flt] ==
    IF a % (2 * pif) > pif THEN (a % (2 * pif)) - 2 * pif
    ELSE a % (2 * pif)

Sin[a \in Flt] == IF ~isfinite(a) THEN NaN ELSE SinFolded[ReduceAngle[a]]
Cos[a \in Flt] == IF ~isfinite(a) THEN NaN ELSE CosFolded[ReduceAngle[a]]

clamp[x \in Flt, lo \in Flt, hi \in Flt] ==
    LET m == IF Gt(x, lo) THEN x ELSE lo
    IN  IF Lt(m, hi) THEN m ELSE hi

\* ------------------------------------------------------------------------
\* ym::vec3f, ym::mat3f, ym::frame3f
\* ------------------------------------------------------------------------

zero3f == <<0, 0, 0>>
identity_mat3f == <<<<Scale, 0, 0>>, <<0, Scale, 0>>, <<0, 0, Scale>>>>
zero_mat3f == <<zero3f, zero3f, zero3f>>
identity_frame3f == <<<<Scale, 0, 0>>, <<0, Scale, 0>>, <<0, 0, Scale>>, zero3f>>

VAdd[a \in Vec, b \in Vec] == <<Add[a[1], b[1]], Add[a[2], b[2]], Add[a[3], b[3]]>>
VSub[a \in Vec, b \in Vec] == <<Sub[a[1], b[1]], Sub[a[2], b[2]], Sub[a[3], b[3]]>>
VNeg[a \in Vec] == <<Neg[a[1]], Neg[a[2]], Neg[a[3]]>>
VScale[a \in Vec, s \in Flt] == <<Mul[a[1], s], Mul[a[2], s], Mul[a[3], s]>>
VDivS[a \in Vec, s \in Flt] == <<Div[a[1], s], Div[a[2], s], Div[a[3], s]>>
VMul[a \in Vec, b \in Vec] == <<Mul[a[1], b[1]], Mul[a[2], b[2]], Mul[a[3], b[3]]>>

dot[a \in Vec, b \in Vec] == Add[Add[Mul[a[1], b[1]], Mul[a[2], b[2]]], Mul[a[3], b[3]]]
cross[a \in Vec, b \in Vec] ==
    <<Sub[Mul[a[2], b[3]], Mul[a[3], b[2]]],
      Sub[Mul[a[3], b[1]], Mul[a[1], b[3]]],
      Sub[Mul[a[1], b[2]], Mul[a[2], b[1]]]>>
length[a \in Vec] == Sqrt[dot[a, a]]
\* a divided by its length l, a vector of length 0 being left as it is
NormalizeBy[a \in Vec, l \in Flt] == IF FEq(l, 0) THEN a ELSE VDivS[a, l]
normalize[a \in Vec] == NormalizeBy[a, length[a]]

\* m * v for a column major matrix
MatVec[m \in Mat, v \in Vec] ==
    VAdd[VAdd[VScale[m[1], v[1]], VScale[m[2], v[2]]], VScale[m[3], v[3]]]
MatMul[a \in Mat, b \in Mat] == <<MatVec[a, b[1]], MatVec[a, b[2]], MatVec[a, b[3]]>>
MatAdd[a \in Mat, b \in Mat] == <<VAdd[a[1], b[1]], VAdd[a[2], b[2]], VAdd[a[3], b[3]]>>
MatDivS[a \in Mat, s \in Flt] == <<VDivS[a[1], s], VDivS[a[2], s], VDivS[a[3], s]>>
MatScale[a \in Mat, s \in Flt] == <<VScale[a[1], s], VScale[a[2], s], VScale[a[3], s]>>
transpose[m \in Mat] ==
    <<<<m[1][1], m[2][1], m[3][1]>>,
      <<m[1][2], m[2][2], m[3][2]>>,
      <<m[1][3], m[2][3], m[3][3]>>>>
determinant[m \in Mat] == dot[m[1], cross[m[2], m[3]]]
\* inverse by the adjugate: the rows of the inverse are the cross products
\* of the columns, divided by the determinant
InverseBy[m \in Mat, d \in Flt] ==
    transpose[<<VDivS[cross[m[2], m[3]], d],
                VDivS[cross[m[3], m[1]], d],
                VDivS[cross[m[1], m[2]], d]>>]
inverse[m \in Mat] == InverseBy[m, determinant[m]]

rot[f \in Mat] == <<f[1], f[2], f[3]>>
pos[f \in Mat] == f[4]
make_frame[r \in Mat, o \in Vec] == <<r[1], r[2], r[3], o>>
transform_point[f \in Mat, p \in Vec] == VAdd[MatVec[rot[f], p], pos[f]]
transform_direction[f \in Mat, d \in Vec] == MatVec[rot[f], d]

VFinite(v) == isfinite(v[1]) /\ isfinite(v[2]) /\ isfinite(v[3])


\* ------------------------------------------------------------------------
\* Caller owned geometry: triangle meshes
\* ------------------------------------------------------------------------

\* The quads of a cube whose vertex i has the coordinate bits
\* (i % 2, (i \div 2) % 2, i \div 4), each listed counter clockwise as seen
\* from outside.
CubeQuads ==
    <<<<4, 6, 2, 0>>, <<1, 3, 7, 5>>, <<0, 1, 5, 4>>,
      <<6, 7, 3, 2>>, <<2, 3, 1, 0>>, <<4, 5, 7, 6>>>>

\* The two triangles of quad q, cut along one diagonal or the other, with
\* the winding reversed when inward.
QuadTriangles(q, flip, inward) ==
    LET t == IF flip THEN <<<<q[2], q[3], q[4]>>, <<q[2], q[4], q[1]>>>>
             ELSE <<<<q[1], q[2], q[3]>>, <<q[1], q[3], q[4]>>>>
    IN  IF inward
        THEN <<<<t[1][1], t[1][3], t[1][2]>>, <<t[2][1], t[2][3], t[2][2]>>>>
        ELSE t

\* A triangle mesh: tri is the array of index triples (0 based vertex
\* indices, as in the code), pos the array of vertex positions.
\* flips[k] chooses the diagonal of the faces orthogonal to axis k.
CubeMesh(edge, centre, flips, inward) ==
    [tri |-> QuadTriangles(CubeQuads[1], flips[1], inward)
             \o QuadTriangles(CubeQuads[2], flips[1], inward)
             \o QuadTriangles(CubeQuads[3], flips[2], inward)
             \o QuadTriangles(CubeQuads[4], flips[2], inward)
             \o QuadTriangles(CubeQuads[5], flips[3], inward)
             \o QuadTriangles(CubeQuads[6], flips[3], inward),
     pos |-> [i \in 0..7 |->
                <<centre[1] + (IF i % 2 = 1 THEN edge ELSE -edge) \div 2,
                  centre[2] + (IF (i \div 2) % 2 = 1 THEN edge ELSE -edge) \div 2,
                  centre[3] + (IF i \div 4 = 1 THEN edge ELSE -edge) \div 2>>]]

NoFlips == <<FALSE, FALSE, FALSE>>
UnitCube == CubeMesh(Scale, zero3f, NoFlips, FALSE)

\* ------------------------------------------------------------------------
\* Moments
\* ------------------------------------------------------------------------

tetrahedron_volume[v0 \in Vec, v1 \in Vec, v2 \in Vec, v3 \in Vec] ==
    Div[dot[cross[VSub[v1, v0], VSub[v2, v0]], VSub[v3, v0]], 6 * Scale]

\* Sums are grouped in pairs: Add is exact on finite values, so the grouping
\* gives the value of the code's left to right sum whenever no partial sum
\* leaves the finite range.
Sum4[a \in Flt, b \in Flt, c \in Flt, d \in Flt] == Add[Add[a, b], Add[c, d]]

\* diag[j] of _compute_tetra_inertia (j is 1..3 here); vr is <<vr0, .., vr3>>
TetraDiag[vr \in Mat, volume \in Flt, j \in Flt] ==
    LET x == <<vr[1][j], vr[2][j], vr[3][j], vr[4][j]>>
        s == Add[Sum4[Mul[x[1], x[1]], Mul[x[2], x[2]],
                      Mul[x[3], x[3]], Mul[x[4], x[4]]],
                 Add[Sum4[Mul[x[1], x[2]], Mul[x[1], x[3]],
                          Mul[x[1], x[4]], Mul[x[2], x[3]]],
                     Add[Mul[x[2], x[4]], Mul[x[3], x[4]]]]]
    IN  Div[Mul[Mul[s, 6 * Scale], volume], 60 * Scale]

\* offd[j] of _compute_tetra_inertia, with j1 = (j + 1) % 3, j2 = (j + 2) % 3
TetraOffd[vr \in Mat, volume \in Flt, j \in Flt] ==
    LET j1 == (j % 3) + 1
        j2 == ((j + 1) % 3) + 1
        two == 2 * Scale
        x == <<vr[1][j1], vr[2][j1], vr[3][j1], vr[4][j1]>>
        y == <<vr[1][j2], vr[2][j2], vr[3][j2], vr[4][j2]>>
        s == Sum4[Sum4[Mul[Mul[two, x[1]], y[1]], Mul[Mul[two, x[2]], y[2]],
                       Mul[Mul[two, x[3]], y[3]], Mul[Mul[two, x[4]], y[4]]],
                  Sum4[Mul[x[2], y[1]], Mul[x[3], y[1]],
                       Mul[x[4], y[1]], Mul[x[1], y[2]]],
                  Sum4[Mul[x[3], y[2]], Mul[x[4], y[2]],
                       Mul[x[1], y[3]], Mul[x[2], y[3]]],
                  Sum4[Mul[x[4], y[3]], Mul[x[1], y[4]],
                       Mul[x[2], y[4]], Mul[x[3], y[4]]]]
    IN  Div[Mul[Mul[s, 6 * Scale], volume], 120 * Scale]

\* the matrix _compute_tetra_inertia returns, from diag and offd
TetraMatrix[diag \in Vec, offd \in Vec] ==
    <<<<Add[diag[2], diag[3]], Neg[offd[3]], Neg[offd[2]]>>,
      <<Neg[offd[3]], Add[diag[1], diag[3]], Neg[offd[1]]>>,
      <<Neg[offd[2]], Neg[offd[1]], Add[diag[1], diag[2]]>>>>

\* _compute_tetra_inertia once the volume and the relative vertices are known
TetraInertia[vr \in Mat, volume \in Flt] ==
    TetraMatrix[<<TetraDiag[vr, volume, 1], TetraDiag[vr, volume, 2],
                  TetraDiag[vr, volume, 3]>>,
                <<TetraOffd[vr, volume, 1], TetraOffd[vr, volume, 2],
                  TetraOffd[vr, volume, 3]>>]

_compute_tetra_inertia[v0 \in Vec, v1 \in Vec, v2 \in Vec, v3 \in Vec, center \in Vec] ==
    TetraInertia[<<VSub[v0, center], VSub[v1, center], VSub[v2, center],
                   VSub[v3, center]>>,
                 tetrahedron_volume[v0, v1, v2, v3]]

\* what one turn of the first loop of _compute_moments adds to center
MomentsCenterTerm[tvolume \in Flt, v0 \in Vec, v1 \in Vec, v2 \in Vec] ==
    VDivS[VScale[VAdd[VAdd[VAdd[zero3f, v0], v1], v2], tvolume], 4 * Scale]

\* what one turn of the first loop of _compute_moments adds to
\* <<volume, center>>
MomentsVolumeCenterTerm(t, ps) ==
    <<tetrahedron_volume[zero3f, ps[t[1]], ps[t[2]], ps[t[3]]],
      MomentsCenterTerm[tetrahedron_volume[zero3f, ps[t[1]], ps[t[2]],
                                           ps[t[3]]],
                        ps[t[1]], ps[t[2]], ps[t[3]]]>>

\* the first loop of _compute_moments over the triangles lo..hi:
\* <<volume, center>>, the terms summed in pairs
RECURSIVE MomentsVolumeCenter(_, _, _, _)
MomentsVolumeCenter(triangles, ps, lo, hi) ==
    IF lo > hi THEN <<0, zero3f>>
    ELSE IF lo = hi THEN MomentsVolumeCenterTerm(triangles[lo], ps)
    ELSE LET mid == (lo + hi) \div 2
             l == MomentsVolumeCenter(triangles, ps, lo, mid)
             r == MomentsVolumeCenter(triangles, ps, mid + 1, hi)
         IN  <<Add[l[1], r[1]], VAdd[l[2], r[2]]>>

\* the second loop of _compute_moments over the triangles lo..hi, the terms
\* summed in pairs
RECURSIVE MomentsInertia(_, _, _, _, _)
MomentsInertia(triangles, ps, center, lo, hi) ==
    IF lo > hi THEN zero_mat3f
    ELSE IF lo = hi
    THEN LET t == triangles[lo]
         IN  _compute_tetra_inertia[zero3f, ps[t[1]], ps[t[2]], ps[t[3]],
                                    center]
    ELSE LET mid == (lo + hi) \div 2
         IN  MatAdd[MomentsInertia(triangles, ps, center, lo, mid),
                    MomentsInertia(triangles, ps, center, mid + 1, hi)]

\* the second half of _compute_moments, from center /= volume on
MomentsAround(ntriangles, triangles, ps, volume, center) ==
    <<volume, center,
      MatDivS[MomentsInertia(triangles, ps, center, 1, ntriangles), volume]>>

\* _compute_moments once the first loop has summed <<volume, center>>
MomentsAfterLoop(ntriangles, triangles, ps, vc) ==
    MomentsAround(ntriangles, triangles, ps, vc[1], VDivS[vc[2], vc[1]])

\* _compute_moments whose loops stop one triangle early
_compute_moments_short(ntriangles, triangles, nverts, ps) ==
    MomentsAfterLoop(ntriangles - 1, triangles, ps,
                     MomentsVolumeCenter(triangles, ps, 1, ntriangles - 1))

\* _compute_moments on triangles: <<volume, center, inertia>>
_compute_moments(ntriangles, triangles, nverts, ps) ==
    MomentsAfterLoop(ntriangles, triangles, ps,
                     MomentsVolumeCenter(triangles, ps, 1, ntriangles))

\* ------------------------------------------------------------------------
\* Bounds and input sets
\* ------------------------------------------------------------------------

\* make_scene is called with 1..MaxBodies bodies
MaxBodies == 3
\* calls of set_body per scene
MaxSetBody == 2
\* calls of set_body_frame and set_body_velocity per scene
MaxSets == 1
\* completed calls of advance_simulation per scene
MaxSteps == 2
\* pairs returned by one call of the overlap_shapes callback
MaxPairs == 3
\* witnesses returned by one call of the overlap_verts callback
MaxWitnesses == 1
MaxOverlaps == 2
\* completed calls of advance_simulation in the free fall
MaxFallSteps == 100

\* Caller memory: a pointer to a triangle or position array is 0 (nullptr)
\* or the number of a mesh.
nullptr == 0
CubePtr == 1
Deref(ptr) == UnitCube

\* the frames, velocities and time steps callers pass
TranslationFrame[o \in Vec] == make_frame[identity_mat3f, o]
FrameAbove == TranslationFrame[<<0, (9 * Scale) \div 10, 0>>]
FrameAside == TranslationFrame[<<0, (11 * Scale) \div 10, 0>>]
LinMoving == <<Scale, -Scale, 0>>
AngMoving == <<0, 0, Scale>>
Dts == {Scale \div 60}

\* the argument tuples of set_body:
\* <<frame, lin_vel, ang_vel, density, ntriangles, triangles, nverts, pos>>
StaticCube == <<identity_frame3f, zero3f, zero3f, 0, 12, CubePtr, 8, CubePtr>>
MovingCube ==
    <<FrameAbove, LinMoving, AngMoving, 2 * Scale, 12, CubePtr, 8, CubePtr>>
SetBodyInputs == {StaticCube, MovingCube}
SetFrameInputs == {FrameAside}
SetVelocityInputs == {<<LinMoving, AngMoving>>, <<LinMoving, zero3f>>}

\* the free fall: a unit cube of density 1 at rest at y = 10
FrameFall == TranslationFrame[<<0, 10 * Scale, 0>>]
FallingCube == <<FrameFall, zero3f, zero3f, Scale, 12, CubePtr, 8, CubePtr>>

\* the meshes callers pass to compute_moments: cubes of edge 1 or 2 about
\* four centres, each face cut along either diagonal, wound outward or inward
MomentsEdges == {Scale, 2 * Scale}
MomentsCentres ==
    {zero3f, <<Scale, 0, 0>>, <<0, Scale \div 2, 0>>,
     <<Scale \div 4, Scale \div 4, Scale \div 4>>}
Flips == {<<a, b, c>> : a \in BOOLEAN, b \in BOOLEAN, c \in BOOLEAN}

\* ------------------------------------------------------------------------
\* State
\* ------------------------------------------------------------------------

VARIABLES
    shapes,      \* scene::shapes: body id (0 based) -> shape
    scn,         \* the other fields of the scene
    pc,          \* where the caller or the running advance_simulation is
    dt,          \* advance_simulation: the argument dt
    collisions,  \* advance_simulation: the local vector of collisions
    shapecollisions, \* _compute_collisions: the pairs overlap_shapes returned
    sc_pos,      \* _compute_collisions: the pairs the loop has been through
    iter,        \* _solve_constraints: the loop variable i
    trace,       \* the phases the running call has completed, in order
    verts_calls, \* the calls of overlap_verts of the last or running call:
                 \* sid1, sid2, max_dist and the number of witnesses returned
    refits,      \* the calls of overlap_refit made by the last or running call
    nan_lines,   \* the lines "nan detected" printed by the last or running call
    written,     \* body id -> what set_body / set_body_frame /
                 \* set_body_velocity wrote since the last step began
    nsetbody,    \* calls of set_body on this scene
    nsets,       \* calls of set_body_frame / set_body_velocity on this scene
    steps,       \* completed calls of advance_simulation on this scene
    last_call,   \* the public function that returned last
    args,        \* the arguments of the last make_scene or compute_moments
    result,      \* compute_moments: the tuple it returned
    entry        \* the bodies as they were when the last or running step
                 \* began (step) and when its solver began (solver), the
                 \* pairs overlap_shapes returned to it (pairs) and, pair by
                 \* pair, the two lists overlap_verts returned (wits), both
                 \* kept until _compute_collisions returns, and the contacts
                 \* as _compute_collisions returned them (built)

vars == <<shapes, scn, pc, dt, collisions, shapecollisions, sc_pos, iter,
          trace, verts_calls, refits, nan_lines, written, nsetbody, nsets,
          steps, last_call, args, result, entry>>

locals == <<dt, collisions, shapecollisions, sc_pos, iter>>
ghosts == <<trace, verts_calls, refits, nan_lines>>
moments == <<args, result>>

\* struct shape, as its default member initializers leave it
default_frame == identity_frame3f
default_vec == zero3f
shape ==
    [frame |-> default_frame, lin_vel |-> default_vec, ang_vel |-> default_vec,
     density |-> Scale, simulated |-> TRUE,
     nelems |-> 0, triangles |-> nullptr, nverts |-> 0, pos |-> nullptr,
     _mass |-> Scale, _inertia_local |-> identity_mat3f,
     _centroid_local |-> zero3f, _centroid_world |-> zero3f,
     _mass_inv |-> Scale, _inertia_inv_world |-> identity_mat3f,
     _inertia_inv_local |-> identity_mat3f]

\* no step has begun
NoEntry ==
    [step |-> <<>>, solver |-> <<>>, pairs |-> <<>>, wits |-> <<>>,
     built |-> <<>>]

\* struct collision, as its default member initializers leave it
collision ==
    [shapes |-> <<0, 0>>, frame |-> identity_frame3f,
     impulse |-> zero3f, local_impulse |-> zero3f,
     vel_before |-> zero3f, vel_after |-> zero3f,
     meff_inv |-> zero3f, depth |-> 0]

\* struct scene, as its default member initializers leave it
scene ==
    [gravity |-> <<0, -((982 * Scale) \div 100), 0>>,
     lin_drag |-> Scale \div 100, ang_drag |-> Scale \div 100,
     iterations |-> 20,
     overlap_max_radius |-> Scale \div 4,
     overlap_ctx |-> nullptr,
     overlap_shapes |-> nullptr, overlap_shape |-> nullptr,
     overlap_verts |-> nullptr, overlap_refit |-> nullptr,
     __collisions |-> <<>>]

Bodies == DOMAIN shapes
NotWritten == [fset |-> FALSE, frame |-> identity_frame3f,
               vset |-> FALSE, lin_vel |-> zero3f, ang_vel |-> zero3f]

\* ------------------------------------------------------------------------
\* Public API called between steps
\* ------------------------------------------------------------------------

\* make_scene(nbodies): the fresh scene
make_scene_extra(nbodies) == [bid \in 0..nbodies |-> shape]
make_scene(nbodies) == [bid \in 0..(nbodies - 1) |-> shape]

FreshScene(nbodies) ==
    /\ shapes = make_scene(nbodies)
    /\ scn = scene
    /\ pc = "setup"
    /\ dt = 0
    /\ collisions = <<>>
    /\ shapecollisions = <<>>
    /\ sc_pos = 0
    /\ iter = 0
    /\ trace = <<>>
    /\ verts_calls = <<>>
    /\ refits = 0
    /\ nan_lines = 0
    /\ written = [bid \in 0..(nbodies - 1) |-> NotWritten]
    /\ nsetbody = 0
    /\ nsets = 0
    /\ steps = 0
    /\ last_call = "make_scene"
    /\ args = <<nbodies>>
    /\ result = <<>>
    /\ entry = NoEntry

Init == \E nbodies \in 1..MaxBodies : FreshScene(nbodies)

\* set_body taking a body of density 0 for a simulated one
set_body_ge(shp, frame, lin_vel, ang_vel, density, ntriangles, triangles, nverts, ps) ==
    [shp EXCEPT !.frame = frame, !.lin_vel = lin_vel, !.ang_vel = ang_vel,
                !.density = density, !.simulated = ~Lt(density, 0),
                !.nelems = ntriangles, !.triangles = triangles,
                !.nverts = nverts, !.pos = ps]

set_body(shp, frame, lin_vel, ang_vel, density, ntriangles, triangles, nverts, ps) ==
    [shp EXCEPT !.frame = frame, !.lin_vel = lin_vel, !.ang_vel = ang_vel,
                !.density = density, !.simulated = Gt(density, 0),
                !.nelems = ntriangles, !.triangles = triangles,
                !.nverts = nverts, !.pos = ps]

SetBody(bid, in) ==
    /\ pc = "setup"
    /\ nsetbody < MaxSetBody
    /\ shapes' = [shapes EXCEPT ![bid] =
                    set_body(@, in[1], in[2], in[3], in[4], in[5], in[6],
                             in[7], in[8])]
    /\ written' = [written EXCEPT ![bid] =
                    [fset |-> TRUE, frame |-> in[1],
                     vset |-> TRUE, lin_vel |-> in[2], ang_vel |-> in[3]]]
    /\ nsetbody' = nsetbody + 1
    /\ last_call' = "set_body"
    /\ UNCHANGED <<entry, scn, pc, locals, ghosts, nsets, steps, moments>>

get_body_frame(bid) == shapes[bid].frame

get_body_velocity(bid) == <<shapes[bid].lin_vel, shapes[bid].ang_vel>>

\* set_body_frame that also stops the body
set_body_frame_stop(shp, frame) ==
    [shp EXCEPT !.frame = frame, !.lin_vel = zero3f, !.ang_vel = zero3f]

set_body_frame(shp, frame) == [shp EXCEPT !.frame = frame]

SetBodyFrame(bid, frame) ==
    /\ pc = "idle"
    /\ steps > 0
    /\ nsets < MaxSets
    /\ shapes' = [shapes EXCEPT ![bid] = set_body_frame(@, frame)]
    /\ written' = [written EXCEPT ![bid].fset = TRUE, ![bid].frame = frame]
    /\ nsets' = nsets + 1
    /\ last_call' = "set_body_frame"
    /\ UNCHANGED <<entry, scn, pc, locals, ghosts, nsetbody, steps, moments>>

set_body_velocity(shp, lin_vel, ang_vel) ==
    [shp EXCEPT !.lin_vel = lin_vel, !.ang_vel = ang_vel]

SetBodyVelocity(bid, lin_vel, ang_vel) ==
    /\ pc = "idle"
    /\ steps > 0
    /\ nsets < MaxSets
    /\ shapes' = [shapes EXCEPT ![bid] = set_body_velocity(@, lin_vel, ang_vel)]
    /\ written' = [written EXCEPT ![bid].vset = TRUE,
                                  ![bid].lin_vel = lin_vel,
                                  ![bid].ang_vel = ang_vel]
    /\ nsets' = nsets + 1
    /\ last_call' = "set_body_velocity"
    /\ UNCHANGED <<entry, scn, pc, locals, ghosts, nsetbody, steps, moments>>

\* the callbacks are functions of the caller: a bound callback is non null
CallbackPtr == 1
set_overlap_callbacks(s, ctx, overlap_shapes, overlap_shape, overlap_verts, overlap_refit) ==
    [s EXCEPT !.overlap_ctx = ctx, !.overlap_shapes = overlap_shapes,
              !.overlap_shape = overlap_shape,
              !.overlap_verts = overlap_verts,
              !.overlap_refit = overlap_refit]

SetOverlapCallbacks ==
    /\ pc = "setup"
    /\ scn.overlap_shapes = nullptr
    /\ scn' = set_overlap_callbacks(scn, CallbackPtr, CallbackPtr, CallbackPtr,
                                    CallbackPtr, CallbackPtr)
    /\ last_call' = "set_overlap_callbacks"
    /\ UNCHANGED <<entry, shapes, pc, locals, ghosts, written, nsetbody, nsets, steps,
                   moments>>

\* _compute_moments of the meshes callers pass, computed once
CubeMoments ==
    _compute_moments(12, Deref(CubePtr).tri, 8, Deref(CubePtr).pos)
NoMoments ==
    _compute_moments(0, Deref(nullptr).tri, 0, Deref(nullptr).pos)
ShapeMoments(shp) == IF shp.nelems = 0 THEN NoMoments ELSE CubeMoments

\* the simulated branch of the loop of init_simulation, m being what
\* _compute_moments returned
\* init_simulation storing the mass where the inverse mass belongs
init_moments_mass_only(shp, m) ==
    [shp EXCEPT !._centroid_local = m[2],
                !._inertia_local = m[3],
                !._mass = Mul[shp.density, m[1]],
                !._centroid_world = transform_point[shp.frame, m[2]],
                !._mass_inv = Mul[shp.density, m[1]],
                !._inertia_inv_local = inverse[m[3]]]

init_moments(shp, m) ==
    [shp EXCEPT !._centroid_local = m[2],
                !._inertia_local = m[3],
                !._mass = Mul[shp.density, m[1]],
                !._centroid_world = transform_point[shp.frame, m[2]],
                !._mass_inv = Div[Scale, Mul[shp.density, m[1]]],
                !._inertia_inv_local = inverse[m[3]]]

\* the body of the loop of init_simulation
init_shape(shp) ==
    IF shp.simulated
    THEN init_moments(shp, ShapeMoments(shp))
    ELSE [shp EXCEPT !._mass = 0, !._mass_inv = 0,
                     !._centroid_local = zero3f,
                     !._centroid_world = zero3f,
                     !._inertia_local = zero_mat3f,
                     !._inertia_inv_local = zero_mat3f]

init_simulation(shps) == [bid \in DOMAIN shps |-> init_shape(shps[bid])]

InitSimulation ==
    /\ pc = "setup"
    /\ shapes' = init_simulation(shapes)
    /\ pc' = "idle"
    /\ last_call' = "init_simulation"
    /\ UNCHANGED <<entry, scn, locals, ghosts, written, nsetbody, nsets, steps,
                   moments>>

\* ------------------------------------------------------------------------
\* The callbacks of the caller
\* ------------------------------------------------------------------------

RECURSIVE SeqsUpTo(_, _)
\* the sequences over S of length at most n
SeqsUpTo(S, n) ==
    IF n = 0 THEN {<<>>}
    ELSE LET shorter == SeqsUpTo(S, n - 1)
         IN  shorter \cup {Append(q, x) : q \in shorter, x \in S}

\* sc comes before cs in the order the caller's index enumerates pairs
PairBefore(sc, cs) == sc[1] < cs[1] \/ (sc[1] = cs[1] /\ sc[2] < cs[2])

\* what overlap_shapes may return: candidate pairs of distinct bodies, drawn
\* smaller body first (the builder itself tests every pair in both orders)
CandidatePairs == {sc \in Bodies \X Bodies : sc[1] < sc[2]}
PairLists ==
    {l \in SeqsUpTo(CandidatePairs, MaxPairs) :
        \A i \in 1..(Len(l) - 1) : PairBefore(l[i], l[i + 1])}

\* what overlap_verts may put into a std::pair<overlap_point, int2>:
\* first.dist, first.eid, first.euv, second[1].  The witness names a
\* triangle of the top face of the cube by its corner pos[6] and the bottom
\* vertex pos[4].
Witnesses ==
    { [dist |-> Scale \div 10, eid |-> 6, euv |-> <<Scale, 0, 0>>, vid |-> 4] }
WitnessLists == SeqsUpTo(Witnesses, MaxWitnesses)

\* ------------------------------------------------------------------------
\* Collision builder
\* ------------------------------------------------------------------------

blerp[a \in Vec, b \in Vec, c \in Vec, w \in Vec] ==
    VAdd[VAdd[VScale[a, w[1]], VScale[b, w[2]]], VScale[c, w[3]]]

triangle_normal[v0 \in Vec, v1 \in Vec, v2 \in Vec] == normalize[cross[VSub[v1, v0], VSub[v2, v0]]]

orthogonal[v \in Vec] ==
    IF Gt(Abs(v[1]), Abs(v[3])) THEN <<Neg[v[2]], v[1], 0>>
    ELSE <<0, Neg[v[3]], v[2]>>

\* make_frame3_fromz once z and then x are known
FrameFromZX[o \in Vec, z \in Vec, x \in Vec] ==
    <<x, normalize[cross[z, x]], z, o>>
FrameFromZ[o \in Vec, z \in Vec] ==
    FrameFromZX[o, z, normalize[orthogonal[z]]]
make_frame3_fromz[o \in Vec, z_ \in Vec] == FrameFromZ[o, normalize[z_]]

eps == -(Scale \div 100)

\* dot[n, ptp] of _compute_collision for one witness
WitnessDot(shps, sids, overlap) ==
    LET shape1 == shps[sids[1]]
        shape2 == shps[sids[2]]
        p == transform_point[shape2.frame, Deref(shape2.pos).pos[overlap.vid]]
        triangle == Deref(shape1.triangles).tri[overlap.eid + 1]
        v0 == Deref(shape1.pos).pos[triangle[1]]
        v1 == Deref(shape1.pos).pos[triangle[2]]
        v2 == Deref(shape1.pos).pos[triangle[3]]
        tp == transform_point[shape1.frame, blerp[v0, v1, v2, overlap.euv]]
        n == transform_direction[shape1.frame, triangle_normal[v0, v1, v2]]
        ptp == normalize[VSub[p, tp]]
    IN  dot[n, ptp]

\* the collision of a builder that puts the frame at the point of the
\* triangle instead of the vertex
WitnessCollisionAtTriangle(shps, sids, overlap) ==
    LET shape1 == shps[sids[1]]
        triangle == Deref(shape1.triangles).tri[overlap.eid + 1]
        v0 == Deref(shape1.pos).pos[triangle[1]]
        v1 == Deref(shape1.pos).pos[triangle[2]]
        v2 == Deref(shape1.pos).pos[triangle[3]]
        tp == transform_point[shape1.frame, blerp[v0, v1, v2, overlap.euv]]
        n == transform_direction[shape1.frame, triangle_normal[v0, v1, v2]]
    IN  [collision EXCEPT !.shapes = sids, !.depth = overlap.dist,
                          !.frame = make_frame3_fromz[tp, n]]

\* the collision _compute_collision pushes for one witness it accepts
WitnessCollision(shps, sids, overlap) ==
    LET shape1 == shps[sids[1]]
        shape2 == shps[sids[2]]
        p == transform_point[shape2.frame, Deref(shape2.pos).pos[overlap.vid]]
        triangle == Deref(shape1.triangles).tri[overlap.eid + 1]
        v0 == Deref(shape1.pos).pos[triangle[1]]
        v1 == Deref(shape1.pos).pos[triangle[2]]
        v2 == Deref(shape1.pos).pos[triangle[3]]
        n == transform_direction[shape1.frame, triangle_normal[v0, v1, v2]]
    IN  [collision EXCEPT !.shapes = sids, !.depth = overlap.dist,
                          !.frame = make_frame3_fromz[p, n]]

RECURSIVE CollisionLoopLe(_, _, _, _)
\* the loop of a builder that keeps a witness only when dot <= eps
CollisionLoopLe(shps, sids, overlaps, k) ==
    IF k = 0 THEN <<>>
    ELSE LET before == CollisionLoopLe(shps, sids, overlaps, k - 1)
         IN  IF Le(WitnessDot(shps, sids, overlaps[k]), eps)
             THEN Append(before, WitnessCollision(shps, sids, overlaps[k]))
             ELSE before

RECURSIVE CollisionLoop(_, _, _, _)
\* the loop of _compute_collision over overlaps[1..k]
CollisionLoop(shps, sids, overlaps, k) ==
    IF k = 0 THEN <<>>
    ELSE LET before == CollisionLoop(shps, sids, overlaps, k - 1)
         IN  IF Gt(WitnessDot(shps, sids, overlaps[k]), eps) THEN before
             ELSE Append(before, WitnessCollision(shps, sids, overlaps[k]))

\* _compute_collision: the collisions it appends, given what overlap_verts
\* returned
_compute_collision(shps, sids, overlaps) ==
    IF overlaps = <<>> THEN <<>>
    ELSE CollisionLoop(shps, sids, overlaps, Len(overlaps))

\* _compute_collisions without its test of the simulated flags
PairSkippedNoStatic(shps, sc) ==
    \/ shps[sc[1]].triangles = nullptr
    \/ shps[sc[2]].triangles = nullptr

\* _compute_collisions testing the triangles of the first body only
PairSkippedFirstOnly(shps, sc) ==
    \/ ~shps[sc[1]].simulated /\ ~shps[sc[2]].simulated
    \/ shps[sc[1]].triangles = nullptr

\* the tests of _compute_collisions that drop a pair
PairSkipped(shps, sc) ==
    \/ ~shps[sc[1]].simulated /\ ~shps[sc[2]].simulated
    \/ shps[sc[1]].triangles = nullptr
    \/ shps[sc[2]].triangles = nullptr

\* ------------------------------------------------------------------------
\* advance_simulation, phase by phase
\* ------------------------------------------------------------------------

\* update centroid and inertia
\* the first loop of advance_simulation recomputing the inertia only
update_inertia_only(shp) ==
    IF ~shp.simulated THEN shp
    ELSE [shp EXCEPT
            !._inertia_inv_world =
                MatMul[MatMul[rot[shp.frame], shp._inertia_inv_local],
                       transpose[rot[shp.frame]]]]

\* the first loop of advance_simulation recomputing the centroid only
update_centroid_only(shp) ==
    IF ~shp.simulated THEN shp
    ELSE [shp EXCEPT
            !._centroid_world = transform_point[shp.frame, shp._centroid_local]]

update_centroid(shp) ==
    IF ~shp.simulated THEN shp
    ELSE [shp EXCEPT
            !._centroid_world = transform_point[shp.frame, shp._centroid_local],
            !._inertia_inv_world =
                MatMul[MatMul[rot[shp.frame], shp._inertia_inv_local],
                       transpose[rot[shp.frame]]]]

AdvanceBegin(d, limit) ==
    /\ pc = "idle"
    /\ steps < limit
    /\ shapes' = [bid \in Bodies |-> update_centroid(shapes[bid])]
    /\ dt' = d
    /\ pc' = "collide"
    /\ trace' = <<"centroid">>
    /\ verts_calls' = <<>>
    /\ refits' = 0
    /\ nan_lines' = 0
    /\ written' = [bid \in Bodies |-> NotWritten]
    /\ entry' = [NoEntry EXCEPT !.step = shapes]
    /\ UNCHANGED <<scn, collisions, shapecollisions, sc_pos, iter, nsetbody,
                   nsets, steps, last_call, moments>>

\* _compute_collisions: the call of overlap_shapes.  Calling an unbound
\* callback ends the program.
CollideShapes ==
    /\ pc = "collide"
    /\ IF scn.overlap_shapes = nullptr
       THEN /\ pc' = "aborted"
            /\ UNCHANGED <<entry, collisions, shapecollisions, sc_pos, trace>>
       ELSE \E list \in PairLists :
               /\ shapecollisions' = list
               /\ entry' = [entry EXCEPT !.pairs = list]
               /\ sc_pos' = 0
               /\ collisions' = <<>>
               /\ pc' = IF list = <<>> THEN "collided" ELSE "pairs"
               /\ UNCHANGED trace
    /\ UNCHANGED <<shapes, scn, dt, iter, verts_calls, refits,
                   nan_lines, written, nsetbody, nsets, steps, last_call,
                   moments>>

\* one turn of the loop with a builder that goes on to the second order of
\* a pair only when the first order returned a witness
CollidePairOnce ==
    /\ pc = "pairs"
    /\ LET sc == shapecollisions[sc_pos + 1]
           cs == <<sc[2], sc[1]>>
           radius == scn.overlap_max_radius
       IN  IF PairSkipped(shapes, sc)
           THEN /\ entry' = [entry EXCEPT !.wits = Append(@, <<>>)]
                /\ UNCHANGED <<collisions, verts_calls>>
           ELSE \E o1 \in WitnessLists, o2 \in WitnessLists :
                /\ entry' = [entry EXCEPT !.wits = Append(@, <<o1, o2>>)]
                /\ IF o1 = <<>>
                   THEN /\ UNCHANGED collisions
                        /\ verts_calls' = Append(verts_calls,
                                              <<sc[1], sc[2], radius, 0>>)
                   ELSE /\ collisions' = collisions
                                    \o _compute_collision(shapes, sc, o1)
                                    \o _compute_collision(shapes, cs, o2)
                        /\ verts_calls' = verts_calls
                                     \o << <<sc[1], sc[2], radius, Len(o1)>>,
                                           <<cs[1], cs[2], radius, Len(o2)>> >>
    /\ sc_pos' = sc_pos + 1
    /\ pc' = IF sc_pos + 1 = Len(shapecollisions) THEN "collided" ELSE "pairs"
    /\ UNCHANGED <<shapes, scn, dt, shapecollisions, iter, trace, refits,
                   nan_lines, written, nsetbody, nsets, steps, last_call,
                   moments>>

\* _compute_collisions: one turn of the loop over the candidate pairs
CollidePair ==
    /\ pc = "pairs"
    /\ LET sc == shapecollisions[sc_pos + 1]
           cs == <<sc[2], sc[1]>>
           radius == scn.overlap_max_radius
       IN  IF PairSkipped(shapes, sc)
           THEN /\ entry' = [entry EXCEPT !.wits = Append(@, <<>>)]
                /\ UNCHANGED <<collisions, verts_calls>>
           ELSE \E o1 \in WitnessLists, o2 \in WitnessLists :
                   /\ entry' = [entry EXCEPT !.wits = Append(@, <<o1, o2>>)]
                   /\ collisions' = collisions
                                    \o _compute_collision(shapes, sc, o1)
                                    \o _compute_collision(shapes, cs, o2)
                   /\ verts_calls' = verts_calls
                                     \o << <<sc[1], sc[2], radius, Len(o1)>>,
                                           <<cs[1], cs[2], radius, Len(o2)>> >>
    /\ sc_pos' = sc_pos + 1
    /\ pc' = IF sc_pos + 1 = Len(shapecollisions) THEN "collided" ELSE "pairs"
    /\ UNCHANGED <<shapes, scn, dt, shapecollisions, iter, trace, refits,
                   nan_lines, written, nsetbody, nsets, steps, last_call,
                   moments>>

\* _compute_collisions returns: its local vector is destroyed
CollideEnd ==
    /\ pc = "collided"
    /\ shapecollisions' = <<>>
    /\ sc_pos' = 0
    /\ pc' = "gravity"
    /\ trace' = Append(trace, "collide")
    /\ entry' = [entry EXCEPT !.pairs = <<>>, !.wits = <<>>,
                              !.built = collisions]
    /\ UNCHANGED <<shapes, scn, dt, collisions, iter, verts_calls, refits,
                   nan_lines, written, nsetbody, nsets, steps, last_call,
                   moments>>

\* apply external forces
apply_gravity(shp, gravity_impulse) ==
    IF ~shp.simulated THEN shp
    ELSE [shp EXCEPT !.lin_vel = VAdd[@, gravity_impulse]]

\* the gravity loop left out while contacts are retained from the step before
GravityUnlessRetained ==
    /\ pc = "gravity"
    /\ LET gravity_impulse == VScale[scn.gravity, dt]
       IN  shapes' = IF scn.__collisions # <<>> THEN shapes
                     ELSE [bid \in Bodies |->
                             apply_gravity(shapes[bid], gravity_impulse)]
    /\ pc' = "solve_init"
    /\ trace' = Append(trace, "gravity")
    /\ UNCHANGED <<entry, scn, locals, verts_calls, refits, nan_lines, written,
                   nsetbody, nsets, steps, last_call, moments>>

Gravity ==
    /\ pc = "gravity"
    /\ LET gravity_impulse == VScale[scn.gravity, dt]
       IN  shapes' = [bid \in Bodies |->
                        apply_gravity(shapes[bid], gravity_impulse)]
    /\ pc' = "solve_init"
    /\ trace' = Append(trace, "gravity")
    /\ UNCHANGED <<entry, scn, locals, verts_calls, refits, nan_lines, written,
                   nsetbody, nsets, steps, last_call, moments>>

\* ------------------------------------------------------------------------
\* PGS solver
\* ------------------------------------------------------------------------

\* _apply_rel_impulse without its early return
_apply_rel_impulse_always(shp, impulse, rel_pos) ==
    [shp EXCEPT
        !.lin_vel = VAdd[@, VScale[impulse, shp._mass_inv]],
        !.ang_vel = VAdd[@, MatVec[shp._inertia_inv_world,
                                  cross[rel_pos, impulse]]]]

_apply_rel_impulse(shp, impulse, rel_pos) ==
    IF ~shp.simulated THEN shp
    ELSE [shp EXCEPT
            !.lin_vel = VAdd[@, VScale[impulse, shp._mass_inv]],
            !.ang_vel = VAdd[@, MatVec[shp._inertia_inv_world,
                                      cross[rel_pos, impulse]]]]

_muldot[v \in Vec, m \in Mat] == dot[v, MatVec[m, v]]

\* one component of col.meff_inv
MeffInv(shape1, shape2, r1, r2, axis) ==
    Div[Scale,
        Add[Add[Add[shape1._mass_inv, shape2._mass_inv],
                _muldot[cross[r1, axis], shape1._inertia_inv_world]],
            _muldot[cross[r2, axis], shape2._inertia_inv_world]]]

\* the relative velocity of the two bodies of col at the contact point
RelVel(shps, col) ==
    LET shape1 == shps[col.shapes[1]]
        shape2 == shps[col.shapes[2]]
        r1 == VSub[pos[col.frame], shape1._centroid_world]
        r2 == VSub[pos[col.frame], shape2._centroid_world]
        v1 == VAdd[shape1.lin_vel, cross[shape1.ang_vel, r1]]
        v2 == VAdd[shape2.lin_vel, cross[shape2.ang_vel, r2]]
    IN  VSub[v2, v1]

\* the first loops of a solver that starts from the impulses the retained
\* list holds for the same pair of bodies (warm start)
solve_init_warm(shps, col) ==
    LET shape1 == shps[col.shapes[1]]
        shape2 == shps[col.shapes[2]]
        r1 == VSub[pos[col.frame], shape1._centroid_world]
        r2 == VSub[pos[col.frame], shape2._centroid_world]
        prev == {k \in DOMAIN scn.__collisions :
                    scn.__collisions[k].shapes = col.shapes}
        last == IF prev = {} THEN col
                ELSE scn.__collisions[CHOOSE k \in prev : TRUE]
    IN  [col EXCEPT
            !.local_impulse = last.local_impulse,
            !.impulse = last.impulse,
            !.meff_inv = <<MeffInv(shape1, shape2, r1, r2, col.frame[1]),
                           MeffInv(shape1, shape2, r1, r2, col.frame[2]),
                           MeffInv(shape1, shape2, r1, r2, col.frame[3])>>,
            !.vel_before = RelVel(shps, col)]

\* initialize computation, and the relative velocity for visualization
solve_init(shps, col) ==
    LET shape1 == shps[col.shapes[1]]
        shape2 == shps[col.shapes[2]]
        r1 == VSub[pos[col.frame], shape1._centroid_world]
        r2 == VSub[pos[col.frame], shape2._centroid_world]
    IN  [col EXCEPT
            !.local_impulse = zero3f,
            !.impulse = zero3f,
            !.meff_inv = <<MeffInv(shape1, shape2, r1, r2, col.frame[1]),
                           MeffInv(shape1, shape2, r1, r2, col.frame[2]),
                           MeffInv(shape1, shape2, r1, r2, col.frame[3])>>,
            !.vel_before = RelVel(shps, col)]

\* col.impulse from col.local_impulse
WorldImpulse[frame \in Mat, local_impulse \in Vec] ==
    VAdd[VAdd[VScale[frame[3], local_impulse[3]],
              VScale[frame[1], local_impulse[1]]],
         VScale[frame[2], local_impulse[2]]]

\* the clamps of the accumulated local impulse
ClampImpulse[li \in Vec, offset \in Flt] ==
    LET z == clamp[li[3], 0, FltMax]
        x == clamp[li[1], Mul[Neg[z], (6 * Scale) \div 10],
                   Mul[z, (6 * Scale) \div 10]]
        y == clamp[li[2], Mul[Neg[z], (6 * Scale) \div 10],
                   Sub[z, Mul[offset, (6 * Scale) \div 10]]]
    IN  <<x, y, z>>

\* r1 (i = 1) and r2 (i = 2) of the loops of the solver
ContactArm(shps, col, i) ==
    VSub[pos[col.frame], shps[col.shapes[i]]._centroid_world]

\* local_impulse of the inner loop, offset being 0.0f
LocalImpulse[meff_inv \in Vec, frame \in Mat, vr \in Vec] ==
    VMul[meff_inv, <<Neg[dot[frame[1], vr]], Neg[dot[frame[2], vr]],
                     Add[Neg[dot[frame[3], vr]], 0]>>]

\* the inner loop without its first pair of _apply_rel_impulse: the old
\* impulse is not taken back before the new one is applied
solve_apply_no_undo(shps, col, li, impulse) ==
    <<[shps EXCEPT
         ![col.shapes[1]] =
            _apply_rel_impulse(@, VNeg[impulse], ContactArm(shps, col, 1)),
         ![col.shapes[2]] =
            _apply_rel_impulse(@, impulse, ContactArm(shps, col, 2))],
      [col EXCEPT !.local_impulse = li, !.impulse = impulse]>>

\* the inner loop from the second pair of _apply_rel_impulse on, li being
\* col.local_impulse after the clamps and impulse the new col.impulse
solve_apply(shps, col, li, impulse) ==
    <<[shps EXCEPT
         ![col.shapes[1]] =
            _apply_rel_impulse(
                _apply_rel_impulse(@, col.impulse, ContactArm(shps, col, 1)),
                VNeg[impulse], ContactArm(shps, col, 1)),
         ![col.shapes[2]] =
            _apply_rel_impulse(
                _apply_rel_impulse(@, VNeg[col.impulse],
                                   ContactArm(shps, col, 2)),
                impulse, ContactArm(shps, col, 2))],
      [col EXCEPT !.local_impulse = li, !.impulse = impulse]>>

\* the inner loop from the clamps on
solve_clamped(shps, col, li) ==
    solve_apply(shps, col, li, WorldImpulse[col.frame, li])

\* the accumulated local impulse of the inner loop before the clamps
Accumulated(shps, col) ==
    VAdd[col.local_impulse,
         LocalImpulse[col.meff_inv, col.frame, RelVel(shps, col)]]

\* the inner loop without the clamp of the normal component
solve_contact_pulling(shps, col) ==
    solve_clamped(shps, col,
        <<ClampImpulse[Accumulated(shps, col), 0][1],
          ClampImpulse[Accumulated(shps, col), 0][2],
          Accumulated(shps, col)[3]>>)

\* the inner loop without the clamp of the first tangential component
solve_contact_gripping(shps, col) ==
    solve_clamped(shps, col,
        <<Accumulated(shps, col)[1],
          ClampImpulse[Accumulated(shps, col), 0][2],
          ClampImpulse[Accumulated(shps, col), 0][3]>>)

\* the body of the inner loop of the solver: <<shapes, col>> after it
solve_contact(shps, col) ==
    solve_clamped(shps, col,
        ClampImpulse[VAdd[col.local_impulse,
                          LocalImpulse[col.meff_inv, col.frame,
                                       RelVel(shps, col)]],
                     0])

\* the last two loops of the solver
solve_end(shps, col) ==
    [col EXCEPT !.vel_after = RelVel(shps, col),
                !.impulse = WorldImpulse[col.frame, col.local_impulse]]

SolveInit ==
    /\ pc = "solve_init"
    /\ collisions' = [k \in DOMAIN collisions |->
                        solve_init(shapes, collisions[k])]
    /\ iter' = 0
    /\ pc' = "solve"
    /\ entry' = [entry EXCEPT !.solver = shapes]
    /\ UNCHANGED <<shapes, scn, dt, shapecollisions, sc_pos, ghosts, written,
                   nsetbody, nsets, steps, last_call, moments>>

RECURSIVE SolveSweepBackwards(_, _, _)
\* the inner loop visiting the contacts k, k - 1, ..., 1
SolveSweepBackwards(shps, cols, k) ==
    IF k = 0 THEN <<shps, cols>>
    ELSE LET r == solve_contact(shps, cols[k])
         IN  SolveSweepBackwards(r[1], [cols EXCEPT ![k] = r[2]], k - 1)

RECURSIVE SolveSweep(_, _, _)
\* the inner loop of the solver over the contacts 1..k: <<shapes, collisions>>
SolveSweep(shps, cols, k) ==
    IF k = 0 THEN <<shps, cols>>
    ELSE LET before == SolveSweep(shps, cols, k - 1)
             r == solve_contact(before[1], before[2][k])
         IN  <<r[1], [before[2] EXCEPT ![k] = r[2]]>>

\* one turn of the outer loop
SolveIteration ==
    /\ pc = "solve"
    /\ iter < scn.iterations
    /\ LET r == SolveSweep(shapes, collisions, Len(collisions))
       IN  /\ shapes' = r[1]
           /\ collisions' = r[2]
    /\ iter' = iter + 1
    /\ UNCHANGED <<entry, scn, pc, dt, shapecollisions, sc_pos, ghosts, written,
                   nsetbody, nsets, steps, last_call, moments>>

\* the outer loop ends, the solver returns
SolveEnd ==
    /\ pc = "solve"
    /\ iter >= scn.iterations
    /\ collisions' = [k \in DOMAIN collisions |->
                        solve_end(shapes, collisions[k])]
    /\ iter' = 0
    /\ pc' = "drag"
    /\ trace' = Append(trace, "solve")
    /\ UNCHANGED <<entry, shapes, scn, dt, shapecollisions, sc_pos, verts_calls,
                   refits, nan_lines, written, nsetbody, nsets, steps,
                   last_call, moments>>

\* ------------------------------------------------------------------------
\* Integrator
\* ------------------------------------------------------------------------

\* the drag loop leaving the velocities as they are
apply_no_drag(shp, lin_drag, ang_drag) == shp

\* the drag loop damping the linear velocity only
apply_drag_linear(shp, lin_drag, ang_drag) ==
    IF ~shp.simulated THEN shp
    ELSE [shp EXCEPT !.lin_vel = VScale[@, Sub[Scale, lin_drag]]]

apply_drag(shp, lin_drag, ang_drag) ==
    IF ~shp.simulated THEN shp
    ELSE [shp EXCEPT !.lin_vel = VScale[@, Sub[Scale, lin_drag]],
                     !.ang_vel = VScale[@, Sub[Scale, ang_drag]]]

\* the drag phase going on to the refit, the pose loop left out
DragSkipsPose ==
    /\ pc = "drag"
    /\ scn' = [scn EXCEPT !.__collisions = collisions]
    /\ shapes' = [bid \in Bodies |->
                    apply_drag(shapes[bid], scn.lin_drag, scn.ang_drag)]
    /\ pc' = "refit"
    /\ trace' = Append(trace, "drag")
    /\ UNCHANGED <<entry, locals, verts_calls, refits, nan_lines, written, nsetbody,
                   nsets, steps, last_call, moments>>

\* the drag phase adding the contacts of the step to the retained ones
DragAccumulates ==
    /\ pc = "drag"
    /\ scn' = [scn EXCEPT !.__collisions = @ \o collisions]
    /\ shapes' = [bid \in Bodies |->
                    apply_drag(shapes[bid], scn.lin_drag, scn.ang_drag)]
    /\ pc' = "pose"
    /\ trace' = Append(trace, "drag")
    /\ UNCHANGED <<entry, locals, verts_calls, refits, nan_lines, written, nsetbody,
                   nsets, steps, last_call, moments>>

\* copy for visualization, apply drag
Drag ==
    /\ pc = "drag"
    /\ scn' = [scn EXCEPT !.__collisions = collisions]
    /\ shapes' = [bid \in Bodies |->
                    apply_drag(shapes[bid], scn.lin_drag, scn.ang_drag)]
    /\ pc' = "pose"
    /\ trace' = Append(trace, "drag")
    /\ UNCHANGED <<entry, locals, verts_calls, refits, nan_lines, written, nsetbody,
                   nsets, steps, last_call, moments>>

\* rotation_mat3 once the unit axis vv, the sine s, the cosine c and
\* k = 1 - c are known
RotationFrom[vv \in Vec, s \in Flt, c \in Flt, k \in Flt] ==
    <<<<Add[c, Mul[Mul[k, vv[1]], vv[1]]],
        Add[Mul[Mul[k, vv[1]], vv[2]], Mul[s, vv[3]]],
        Sub[Mul[Mul[k, vv[1]], vv[3]], Mul[s, vv[2]]]>>,
      <<Sub[Mul[Mul[k, vv[1]], vv[2]], Mul[s, vv[3]]],
        Add[c, Mul[Mul[k, vv[2]], vv[2]]],
        Add[Mul[Mul[k, vv[2]], vv[3]], Mul[s, vv[1]]]>>,
      <<Add[Mul[Mul[k, vv[1]], vv[3]], Mul[s, vv[2]]],
        Sub[Mul[Mul[k, vv[2]], vv[3]], Mul[s, vv[1]]],
        Add[c, Mul[Mul[k, vv[3]], vv[3]]]>>>>

rotation_mat3[axis \in Vec, angle \in Flt] ==
    RotationFrom[normalize[axis], Sin[angle], Cos[angle],
                 Sub[Scale, Cos[angle]]]

_isfinite(v) == isfinite(v[1]) /\ isfinite(v[2]) /\ isfinite(v[3])

\* the pose loop testing the velocities only
NanLinesVelocities(shp) ==
    IF ~shp.simulated THEN 0
    ELSE (IF ~_isfinite(shp.lin_vel) THEN 1 ELSE 0)
         + (IF ~_isfinite(shp.ang_vel) THEN 1 ELSE 0)

\* the lines "nan detected" the pose loop prints for one body
NanLines(shp) ==
    IF ~shp.simulated THEN 0
    ELSE (IF ~_isfinite(pos[shp.frame]) THEN 1 ELSE 0)
         + (IF ~_isfinite(shp.lin_vel) THEN 1 ELSE 0)
         + (IF ~_isfinite(shp.ang_vel) THEN 1 ELSE 0)

\* the rotation of the frame after the pose update
advance_rot[r \in Mat, ang_vel \in Vec, angle \in Flt] ==
    IF angle # 0 THEN MatMul[rotation_mat3[normalize[ang_vel], angle], r]
    ELSE r

\* the frame after the pose update, r being its rotation
advance_frame[frame \in Mat, centroid_local \in Vec, lin_vel \in Vec, d \in Flt, r \in Mat] ==
    make_frame[r,
        VSub[VAdd[VAdd[MatVec[rot[frame], centroid_local], pos[frame]],
                  VScale[lin_vel, d]],
             MatVec[r, centroid_local]]]

\* the pose loop turning a body about the origin of its frame
advance_pose_about_origin(shp, d) ==
    IF ~shp.simulated THEN shp
    ELSE [shp EXCEPT !.frame =
            make_frame[advance_rot[rot[shp.frame], shp.ang_vel,
                                   Mul[length[shp.ang_vel], d]],
                       VAdd[pos[shp.frame], VScale[shp.lin_vel, d]]]]

\* the pose loop leaving a body that does not turn where it is
advance_pose_turning(shp, d) ==
    IF ~shp.simulated \/ Mul[length[shp.ang_vel], d] = 0 THEN shp
    ELSE [shp EXCEPT !.frame =
            advance_frame[shp.frame, shp._centroid_local, shp.lin_vel, d,
                advance_rot[rot[shp.frame], shp.ang_vel,
                            Mul[length[shp.ang_vel], d]]]]

\* the pose loop writing the advanced centroid to the local centroid as well
advance_pose_recentring(shp, d) ==
    IF ~shp.simulated THEN shp
    ELSE [shp EXCEPT
            !.frame =
                advance_frame[shp.frame, shp._centroid_local, shp.lin_vel, d,
                    advance_rot[rot[shp.frame], shp.ang_vel,
                                Mul[length[shp.ang_vel], d]]],
            !._centroid_local =
                VAdd[transform_point[shp.frame, shp._centroid_local],
                     VScale[shp.lin_vel, d]]]

\* update position and velocity
advance_pose(shp, d) ==
    IF ~shp.simulated THEN shp
    ELSE [shp EXCEPT !.frame =
            advance_frame[shp.frame, shp._centroid_local, shp.lin_vel, d,
                advance_rot[rot[shp.frame], shp.ang_vel,
                            Mul[length[shp.ang_vel], d]]]]

RECURSIVE SumNanLines(_, _)
SumNanLines(shps, n) ==
    IF n = 0 THEN 0 ELSE SumNanLines(shps, n - 1) + NanLines(shps[n - 1])

Pose ==
    /\ pc = "pose"
    /\ nan_lines' = SumNanLines(shapes, Cardinality(Bodies))
    /\ shapes' = [bid \in Bodies |-> advance_pose(shapes[bid], dt)]
    /\ pc' = "refit"
    /\ trace' = Append(trace, "pose")
    /\ UNCHANGED <<entry, scn, locals, verts_calls, refits, written, nsetbody,
                   nsets, steps, last_call, moments>>

\* update acceleration for collisions; advance_simulation returns
Refit ==
    /\ pc = "refit"
    /\ refits' = refits + 1
    /\ trace' = Append(trace, "refit")
    /\ pc' = "idle"
    /\ steps' = steps + 1
    /\ dt' = 0
    /\ collisions' = <<>>
    /\ last_call' = "advance_simulation"
    /\ UNCHANGED <<entry, shapes, scn, shapecollisions, sc_pos, iter, verts_calls,
                   nan_lines, written, nsetbody, nsets, moments>>

\* ------------------------------------------------------------------------
\* Specification
\* ------------------------------------------------------------------------

\* the caller drops the scene and makes a new one
MakeScene(nbodies) ==
    /\ pc \in {"setup", "idle"}
    /\ pc' = "setup"
    /\ shapes' = make_scene(nbodies)
    /\ scn' = scene
    /\ written' = [bid \in 0..(nbodies - 1) |-> NotWritten]
    /\ dt' = 0
    /\ collisions' = <<>>
    /\ shapecollisions' = <<>>
    /\ sc_pos' = 0
    /\ iter' = 0
    /\ trace' = <<>>
    /\ verts_calls' = <<>>
    /\ refits' = 0
    /\ nan_lines' = 0
    /\ nsetbody' = 0
    /\ nsets' = 0
    /\ steps' = 0
    /\ last_call' = "make_scene"
    /\ args' = <<nbodies>>
    /\ entry' = NoEntry
    /\ UNCHANGED result

Next ==
    \/ \E nbodies \in 1..MaxBodies : MakeScene(nbodies)
    \/ \E bid \in Bodies, in \in SetBodyInputs : SetBody(bid, in)
    \/ \E bid \in Bodies, frame \in SetFrameInputs : SetBodyFrame(bid, frame)
    \/ \E bid \in Bodies, v \in SetVelocityInputs :
          SetBodyVelocity(bid, v[1], v[2])
    \/ SetOverlapCallbacks
    \/ InitSimulation
    \/ \E d \in Dts : AdvanceBegin(d, MaxSteps)
    \/ CollideShapes
    \/ CollidePair
    \/ CollideEnd
    \/ Gravity
    \/ SolveInit
    \/ SolveIteration
    \/ SolveEnd
    \/ Drag
    \/ Pose
    \/ Refit

Spec == Init /\ [][Next]_vars

\* ------------------------------------------------------------------------
\* compute_moments called on its own
\* ------------------------------------------------------------------------

\* the caller holds a mesh and has not called compute_moments yet
InitMoments ==
    \E edge \in MomentsEdges, centre \in MomentsCentres, flips \in Flips,
       inward \in BOOLEAN :
        /\ args = <<12, CubeMesh(edge, centre, flips, inward).tri,
                    8, CubeMesh(edge, centre, flips, inward).pos>>
        /\ result = <<>>
        /\ entry = NoEntry
        /\ pc = "moments"
        /\ last_call = "none"
        /\ shapes = <<>>
        /\ scn = scene
        /\ dt = 0
        /\ collisions = <<>>
        /\ shapecollisions = <<>>
        /\ sc_pos = 0
        /\ iter = 0
        /\ trace = <<>>
        /\ verts_calls = <<>>
        /\ refits = 0
        /\ nan_lines = 0
        /\ written = <<>>
        /\ nsetbody = 0
        /\ nsets = 0
        /\ steps = 0

\* compute_moments(ntriangles, triangles, nverts, pos)
ComputeMoments ==
    /\ pc = "moments"
    /\ result = <<>>
    /\ result' = _compute_moments(args[1], args[2], args[3], args[4])
    /\ last_call' = "compute_moments"
    /\ UNCHANGED <<entry, shapes, scn, pc, locals, ghosts, written, nsetbody, nsets,
                   steps, args>>

NextMoments == ComputeMoments

SpecMoments == InitMoments /\ [][NextMoments]_vars

\* ------------------------------------------------------------------------
\* _compute_collision on two cubes
\* ------------------------------------------------------------------------

\* the frames the two cubes are placed at: one of them turned about z as a
\* step turns a body, one with a position that is not a number
FrameTilted ==
    make_frame[rotation_mat3[<<0, 0, Scale>>, Scale \div 60],
               <<0, (9 * Scale) \div 10, 0>>]
FrameNaN == TranslationFrame[<<NaN, 0, 0>>]
CollideFrames ==
    {identity_frame3f, FrameAbove, FrameAside, FrameTilted, FrameNaN}

\* what overlap_verts may return: the witness of Witnesses (a triangle of
\* the top face, a bottom vertex) and one naming a triangle of the face
\* x = +1/2 by its corner pos[3] and the vertex pos[0]
CollideWitnesses ==
    Witnesses \cup
    { [dist |-> Scale \div 20, eid |-> 2, euv |-> <<0, Scale, 0>>, vid |-> 0] }
OverlapLists == SeqsUpTo(CollideWitnesses, MaxOverlaps)

InitCollide ==
    \E f0 \in CollideFrames, f1 \in CollideFrames,
       sids \in {<<0, 1>>, <<1, 0>>}, overlaps \in OverlapLists :
        /\ shapes = [bid \in 0..1 |->
                        set_body(shape, IF bid = 0 THEN f0 ELSE f1, zero3f,
                                 zero3f, Scale, 12, CubePtr, 8, CubePtr)]
        /\ args = <<sids, overlaps>>
        /\ result = <<>>
        /\ entry = NoEntry
        /\ pc = "collision"
        /\ last_call = "none"
        /\ scn = scene
        /\ dt = 0
        /\ collisions = <<>>
        /\ shapecollisions = <<>>
        /\ sc_pos = 0
        /\ iter = 0
        /\ trace = <<>>
        /\ verts_calls = <<>>
        /\ refits = 0
        /\ nan_lines = 0
        /\ written = [bid \in 0..1 |-> NotWritten]
        /\ nsetbody = 2
        /\ nsets = 0
        /\ steps = 0

\* _compute_collision(scn, sids, &collisions), overlap_verts returning
\* the list args[2]
ComputeCollision ==
    /\ pc = "collision"
    /\ last_call = "none"
    /\ collisions' = _compute_collision(shapes, args[1], args[2])
    /\ verts_calls' = << <<args[1][1], args[1][2], scn.overlap_max_radius,
                           Len(args[2])>> >>
    /\ last_call' = "_compute_collision"
    /\ UNCHANGED <<entry, shapes, scn, pc, dt, shapecollisions, sc_pos, iter, trace,
                   refits, nan_lines, written, nsetbody, nsets, steps,
                   moments>>

NextCollide == ComputeCollision

SpecCollide == InitCollide /\ [][NextCollide]_vars

\* ------------------------------------------------------------------------
\* _solve_constraints on two cubes
\* ------------------------------------------------------------------------

\* a simulated cube at rest about the origin
RestingCube ==
    <<identity_frame3f, zero3f, zero3f, Scale, 12, CubePtr, 8, CubePtr>>

\* body 0 and body 1 of the scene the solver is called on
SolverInputs == {StaticCube, RestingCube} \X {MovingCube}

\* a body as the step hands it to the solver: after set_body with the
\* arguments b, init_simulation, the first loop of advance_simulation and
\* the gravity loop
SolverBody(b, d) ==
    apply_gravity(
        update_centroid(
            init_shape(set_body(shape, b[1], b[2], b[3], b[4], b[5], b[6],
                                b[7], b[8]))),
        VScale[scene.gravity, d])

\* the contacts _compute_collisions builds for the pair (0, 1) when
\* overlap_verts returns o1 and then o2
SolverContacts(shps, o1, o2) ==
    _compute_collision(shps, <<0, 1>>, o1)
    \o _compute_collision(shps, <<1, 0>>, o2)

InitSolver ==
    \E b \in SolverInputs, o1 \in OverlapLists, o2 \in OverlapLists,
       d \in Dts :
        /\ shapes = [bid \in 0..1 |-> SolverBody(b[bid + 1], d)]
        /\ collisions =
              SolverContacts([bid \in 0..1 |-> SolverBody(b[bid + 1], d)],
                             o1, o2)
        /\ args = <<o1, o2>>
        /\ result = <<>>
        /\ entry = NoEntry
        /\ pc = "solve_init"
        /\ last_call = "init_simulation"
        /\ scn = scene
        /\ dt = d
        /\ shapecollisions = <<>>
        /\ sc_pos = 0
        /\ iter = 0
        /\ trace = <<"centroid", "collide", "gravity">>
        /\ verts_calls = <<>>
        /\ refits = 0
        /\ nan_lines = 0
        /\ written = [bid \in 0..1 |-> NotWritten]
        /\ nsetbody = 2
        /\ nsets = 0
        /\ steps = 0

NextSolver == SolveInit \/ SolveIteration \/ SolveEnd

\* _solve_constraints is sequential code: once called, its loops run.
\* This is weak fairness of NextSolver, written out with the enabling
\* condition of NextSolver, pc \in {"solve_init", "solve"}.
SpecSolver ==
    /\ InitSolver
    /\ [][NextSolver]_vars
    /\ \/ []<>(pc \notin {"solve_init", "solve"})
       \/ []<><<NextSolver>>_vars

\* ------------------------------------------------------------------------
\* The pose loop on one body whose mesh is off the origin of its frame
\* ------------------------------------------------------------------------

PoseFrames == {identity_frame3f, FrameAbove, FrameTilted}
PoseLinVels == {zero3f, LinMoving}
PoseAngVels == {zero3f, AngMoving, <<Scale, Scale, 0>>}

\* the body after set_body and init_simulation, its mesh the unit cube
\* about centre
PoseBody(centre, frame, lin_vel, ang_vel) ==
    init_moments(
        set_body(shape, frame, lin_vel, ang_vel, Scale, 12, CubePtr, 8,
                 CubePtr),
        _compute_moments(12, CubeMesh(Scale, centre, NoFlips, FALSE).tri,
                         8, CubeMesh(Scale, centre, NoFlips, FALSE).pos))

InitPose ==
    \E centre \in MomentsCentres, frame \in PoseFrames,
       lin_vel \in PoseLinVels, ang_vel \in PoseAngVels, d \in Dts :
        /\ shapes = [bid \in 0..0 |->
                        PoseBody(centre, frame, lin_vel, ang_vel)]
        /\ args = <<centre>>
        /\ result = <<>>
        /\ entry = NoEntry
        /\ pc = "pose"
        /\ last_call = "init_simulation"
        /\ scn = scene
        /\ dt = d
        /\ collisions = <<>>
        /\ shapecollisions = <<>>
        /\ sc_pos = 0
        /\ iter = 0
        /\ trace = <<>>
        /\ verts_calls = <<>>
        /\ refits = 0
        /\ nan_lines = 0
        /\ written = [bid \in 0..0 |-> NotWritten]
        /\ nsetbody = 1
        /\ nsets = 0
        /\ steps = 0

NextPose == Pose

SpecPose == InitPose /\ [][NextPose]_vars

\* ------------------------------------------------------------------------
\* The free fall of one cube
\* ------------------------------------------------------------------------

InitFall == FreshScene(1)

NextFall ==
    \/ nsetbody = 0 /\ SetBody(0, FallingCube)
    \/ nsetbody = 1 /\ SetOverlapCallbacks
    \/ scn.overlap_shapes # nullptr /\ InitSimulation
    \/ \E d \in Dts : AdvanceBegin(d, MaxFallSteps)
    \/ CollideShapes
    \/ CollideEnd
    \/ Gravity
    \/ SolveInit
    \/ SolveIteration
    \/ SolveEnd
    \/ Drag
    \/ Pose
    \/ Refit

SpecFall == InitFall /\ [][NextFall]_vars

\* ------------------------------------------------------------------------
\* Properties of the scene API and of one step
\* ------------------------------------------------------------------------

\* the running call of advance_simulation is between its entry and its return
InStep == pc \notin {"setup", "idle", "aborted"}

\* the bodies of a contact or of a candidate pair are both of density 0
BothStatic(a, b) == shapes[a].density = 0 /\ shapes[b].density = 0
BothUnsimulated(a, b) == ~shapes[a].simulated /\ ~shapes[b].simulated
HasTriangles(a) == shapes[a].triangles # nullptr

\* C1: every transition of a running advance_simulation, its entry and its
\* return included, leaves frame, linear velocity and angular velocity of
\* every body of density 0 exactly as they were, whatever contacts the
\* callbacks reported.
C1_StaticBodyUnchanged ==
    [][(InStep \/ (pc = "idle" /\ pc' = "collide")) =>
          \A bid \in Bodies :
              shapes[bid].density = 0 =>
                  /\ shapes'[bid].frame = shapes[bid].frame
                  /\ shapes'[bid].lin_vel = shapes[bid].lin_vel
                  /\ shapes'[bid].ang_vel = shapes[bid].ang_vel]_vars

\* a step returned whose contact list holds a contact with a body of
\* density 0 that carried an impulse
C1_Witness ==
    /\ pc = "idle"
    /\ last_call = "advance_simulation"
    /\ \E k \in DOMAIN scn.__collisions :
          /\ scn.__collisions[k].impulse # zero3f
          /\ \E i \in 1..2 : shapes[scn.__collisions[k].shapes[i]].density = 0

\* C2: in every reachable state a body is simulated exactly when its
\* density is greater than 0.
C2_SimulatedIffDensity ==
    \A bid \in Bodies : shapes[bid].simulated <=> Gt(shapes[bid].density, 0)

\* after the last step the scene holds a body of density 0 and one of
\* positive density
C2_Witness ==
    /\ pc = "idle"
    /\ steps = MaxSteps
    /\ \E a \in Bodies, b \in Bodies :
          /\ shapes[a].density = 0 /\ ~shapes[a].simulated
          /\ Gt(shapes[b].density, 0) /\ shapes[b].simulated

Phases ==
    <<"centroid", "collide", "gravity", "solve", "drag", "pose", "refit">>

\* C4: the phases a call of advance_simulation has been through are a prefix
\* of: centroid, collide, gravity, solve, drag, pose, refit; a call that
\* returned went through all of them; overlap_refit was invoked once, and
\* only when the pose phase was over.
C4_PhaseOrder ==
    /\ Len(trace) <= Len(Phases)
    /\ trace = SubSeq(Phases, 1, Len(trace))
    /\ refits = (IF Len(trace) = Len(Phases) THEN 1 ELSE 0)
    /\ (pc = "idle" /\ steps > 0) => trace = Phases

\* the second step of a scene with contacts returned
C4_Witness ==
    /\ pc = "idle"
    /\ steps = 2
    /\ last_call = "advance_simulation"
    /\ scn.__collisions # <<>>
    /\ refits = 1

\* C7: overlap_verts is never invoked for a pair of two bodies of density 0,
\* and no contact, in the list under construction or in the list kept for
\* inspection, joins two bodies that are not simulated.
C7_StaticPairs ==
    /\ \A i \in DOMAIN verts_calls :
          ~BothStatic(verts_calls[i][1], verts_calls[i][2])
    /\ \A k \in DOMAIN collisions :
          ~BothUnsimulated(collisions[k].shapes[1], collisions[k].shapes[2])
    /\ \A k \in DOMAIN scn.__collisions :
          ~BothUnsimulated(scn.__collisions[k].shapes[1],
                           scn.__collisions[k].shapes[2])

\* the loop has been through a candidate pair of two bodies of density 0
\* that both carry triangles
C7_Witness ==
    /\ pc = "collided"
    /\ \E i \in DOMAIN shapecollisions :
          /\ BothStatic(shapecollisions[i][1], shapecollisions[i][2])
          /\ HasTriangles(shapecollisions[i][1])
          /\ HasTriangles(shapecollisions[i][2])

\* overlap_verts was invoked for the pair sc, in both orders
VertsCalled(sc) ==
    \E i \in DOMAIN verts_calls, j \in DOMAIN verts_calls :
        /\ <<verts_calls[i][1], verts_calls[i][2]>> = sc
        /\ <<verts_calls[j][1], verts_calls[j][2]>> = <<sc[2], sc[1]>>

\* C8: overlap_verts is never invoked for a pair with a body without
\* triangles and no contact names such a body; the loop over the candidate
\* pairs ends without the program stopping, and when it has ended every
\* candidate pair that has its triangles and a simulated body went to
\* overlap_verts, wherever in the list the dropped pairs were.
C8_MissingTriangles ==
    /\ \A i \in DOMAIN verts_calls :
          HasTriangles(verts_calls[i][1]) /\ HasTriangles(verts_calls[i][2])
    /\ \A k \in DOMAIN collisions :
          HasTriangles(collisions[k].shapes[1])
          /\ HasTriangles(collisions[k].shapes[2])
    /\ scn.overlap_shapes # nullptr => pc # "aborted"
    /\ pc = "collided" =>
          /\ sc_pos = Len(shapecollisions)
          /\ \A i \in DOMAIN shapecollisions :
                (/\ HasTriangles(shapecollisions[i][1])
                 /\ HasTriangles(shapecollisions[i][2])
                 /\ ~BothStatic(shapecollisions[i][1], shapecollisions[i][2]))
                    => VertsCalled(shapecollisions[i])

\* the loop ended on a list in which a pair with a body without triangles
\* came before a pair that went to overlap_verts
C8_Witness ==
    /\ pc = "collided"
    /\ \E i \in DOMAIN shapecollisions, j \in DOMAIN shapecollisions :
          /\ i < j
          /\ ~HasTriangles(shapecollisions[i][1])
             \/ ~HasTriangles(shapecollisions[i][2])
          /\ VertsCalled(shapecollisions[j])

\* C9: when make_scene(n) has returned the scene has the bodies 0..n-1, each
\* of density 1, simulated, at the identity frame, at rest, without
\* triangles or vertices, and the contact list of the scene is empty.
C9_MakeSceneDefaults ==
    last_call = "make_scene" =>
        /\ DOMAIN shapes = 0..(args[1] - 1)
        /\ Cardinality(DOMAIN shapes) = args[1]
        /\ \A bid \in DOMAIN shapes :
              /\ shapes[bid].density = Scale
              /\ shapes[bid].simulated = TRUE
              /\ shapes[bid].frame =
                    << <<Scale, 0, 0>>, <<0, Scale, 0>>, <<0, 0, Scale>>,
                       <<0, 0, 0>> >>
              /\ shapes[bid].lin_vel = <<0, 0, 0>>
              /\ shapes[bid].ang_vel = <<0, 0, 0>>
              /\ shapes[bid].nelems = 0
              /\ shapes[bid].nverts = 0
              /\ shapes[bid].triangles = nullptr
              /\ shapes[bid].pos = nullptr
        /\ scn.__collisions = <<>>

\* make_scene(MaxBodies) returned
C9_Witness ==
    /\ last_call = "make_scene"
    /\ args = <<MaxBodies>>
    /\ Cardinality(DOMAIN shapes) = MaxBodies

\* C10: as long as no advance_simulation began since the write,
\* get_body_frame returns the frame set_body or set_body_frame wrote last
\* and get_body_velocity the velocities set_body or set_body_velocity wrote
\* last; a call of set_body_frame leaves the velocities of every body, and a
\* call of set_body_velocity the frame of every body, as they were.
C10_GetSetRoundTrip ==
    /\ [](\A bid \in Bodies :
            /\ written[bid].fset => get_body_frame(bid) = written[bid].frame
            /\ written[bid].vset =>
                  get_body_velocity(bid) =
                      <<written[bid].lin_vel, written[bid].ang_vel>>)
    /\ [][(nsets' = nsets + 1 /\ last_call' = "set_body_frame") =>
              \A bid \in Bodies :
                  /\ shapes'[bid].lin_vel = shapes[bid].lin_vel
                  /\ shapes'[bid].ang_vel = shapes[bid].ang_vel]_vars
    /\ [][(nsets' = nsets + 1 /\ last_call' = "set_body_velocity") =>
              \A bid \in Bodies : shapes'[bid].frame = shapes[bid].frame]_vars

\* set_body_frame moved a body that has a velocity, after a step
C10_Witness ==
    /\ last_call = "set_body_frame"
    /\ \E bid \in Bodies :
          /\ written[bid].fset
          /\ get_body_frame(bid) = FrameAside
          /\ get_body_velocity(bid)[1] # zero3f

\* the cached world centroid of every simulated body is the centroid its
\* current frame gives (NaN where the local centroid is NaN)
CentroidsConsistent ==
    \A bid \in Bodies :
        shapes[bid].simulated =>
            shapes[bid]._centroid_world =
                transform_point[shapes[bid].frame, shapes[bid]._centroid_local]

\* C3 as stated: whenever init_simulation or advance_simulation has just
\* returned, the cached world centroid of every simulated body is
\* rotation * local_centroid + translation of its current frame.
C3_CentroidAtBoundaries ==
    (pc = "idle" /\ last_call \in {"init_simulation", "advance_simulation"})
        => CentroidsConsistent

\* C3 amended: the cached world centroid of every simulated body is
\* rotation * local_centroid + translation of its current frame when
\* init_simulation has just returned and, in every call of
\* advance_simulation, from the recomputation that opens the step until the
\* poses are advanced.
C3_CentroidWithinStep ==
    /\ (pc = "idle" /\ last_call = "init_simulation") => CentroidsConsistent
    /\ pc \in {"collide", "pairs", "collided", "gravity", "solve_init",
               "solve", "drag", "pose"} => CentroidsConsistent

\* the second step is about to advance the poses and holds a simulated
\* body with a finite centroid that the first step moved
C3_Witness ==
    /\ pc = "pose"
    /\ steps = 1
    /\ \E bid \in Bodies :
          /\ shapes[bid].simulated
          /\ VFinite(shapes[bid]._centroid_world)
          /\ shapes[bid].nelems > 0
          /\ pos[shapes[bid].frame] # pos[FrameAbove]
          /\ pos[shapes[bid].frame] # pos[FrameAside]

\* x is within one percent of t
WithinPercent(x, t) == isfinite(x) /\ Abs(x - t) * 100 <= Abs(t)

\* C5 as stated: after 100 steps of the free fall the cube is at y within
\* 1% of -3.64 with v_y within 1% of -16.37.
C5_FreeFallNoDrag ==
    (pc = "idle" /\ steps = 100) =>
        /\ WithinPercent(pos[shapes[0].frame][2], -((364 * Scale) \div 100))
        /\ WithinPercent(shapes[0].lin_vel[2], -((1637 * Scale) \div 100))

\* C5 amended: after 100 steps of the free fall with the default drag of
\* 0.01 per step, v_y is within 1% of -10.27 and the cube has fallen from
\* y = 10 by a distance within 1% of 10.056.
C5_FreeFallWithDrag ==
    (pc = "idle" /\ steps = 100) =>
        /\ WithinPercent(shapes[0].lin_vel[2], -((1027 * Scale) \div 100))
        /\ WithinPercent(10 * Scale - pos[shapes[0].frame][2],
                         (10056 * Scale) \div 1000)

\* the hundredth step of the fall returned, without contacts or NaN
C5_Witness ==
    /\ pc = "idle"
    /\ steps = 100
    /\ last_call = "advance_simulation"
    /\ scn.__collisions = <<>>
    /\ nan_lines = 0
    /\ Lt(shapes[0].lin_vel[2], 0)

\* the triangle arrays of the outward wound cubes
OutwardCubeTriangles ==
    {CubeMesh(Scale, zero3f, flips, FALSE).tri : flips \in Flips}

\* x is within num / den of t
WithinTolerance(x, t, num, den) ==
    isfinite(x) /\ Abs(x - t) <= (num * Scale) \div den

\* C6: compute_moments on an outward wound triangle mesh of the cube of
\* edge 1 about the origin, whichever diagonals cut its faces, returns the
\* volume 1 and the centroid (0,0,0) within 1e-5 and the inertia tensor
\* (1/6) * identity within 1e-4.
C6_UnitCubeMoments ==
    (/\ last_call = "compute_moments"
     /\ args[4] = UnitCube.pos
     /\ args[2] \in OutwardCubeTriangles) =>
        /\ WithinTolerance(result[1], Scale, 1, 100000)
        /\ \A i \in 1..3 : WithinTolerance(result[2][i], 0, 1, 100000)
        /\ \A i \in 1..3, j \in 1..3 :
              WithinTolerance(result[3][i][j],
                              IF i = j THEN Scale \div 6 ELSE 0, 1, 10000)

\* compute_moments returned for a unit cube about the origin with two of
\* its three face pairs cut along the other diagonal
C6_Witness ==
    /\ last_call = "compute_moments"
    /\ args[4] = UnitCube.pos
    /\ args[2] = CubeMesh(Scale, zero3f, <<TRUE, FALSE, TRUE>>, FALSE).tri
    /\ result[1] = Scale

\* ------------------------------------------------------------------------
\* Properties of the mass properties, the contacts and the solver
\* ------------------------------------------------------------------------

MatFinite(m) == \A i \in 1..3 : VFinite(m[i])
Symmetric(m) == \A i \in 1..3, j \in 1..3 : m[i][j] = m[j][i]

\* the leading principal minors of m are positive
PositiveDefinite(m) ==
    /\ Gt(m[1][1], 0)
    /\ Gt(Sub[Mul[m[1][1], m[2][2]], Mul[m[1][2], m[2][1]]], 0)
    /\ Gt(determinant[m], 0)

\* mass, inverse mass and local inertia of shp are those of a solid
MassDefinite(shp) ==
    /\ Gt(shp._mass, 0)
    /\ shp._mass_inv = Div[Scale, shp._mass]
    /\ MatFinite(shp._inertia_local)
    /\ Symmetric(shp._inertia_local)
    /\ PositiveDefinite(shp._inertia_local)
    /\ MatFinite(shp._inertia_inv_local)

\* C11 as stated: once init_simulation has been called, every simulated
\* body has a mass > 0, the inverse mass 1 / mass and a symmetric positive
\* definite local inertia with a finite cached inverse.
C11_MassDefiniteAll ==
    pc \notin {"setup", "moments"} =>
        \A bid \in Bodies : shapes[bid].simulated => MassDefinite(shapes[bid])

\* C11 amended: the same, for every simulated body that carries a closed,
\* outward wound triangle mesh of positive volume.
C11_MassDefiniteSolid ==
    pc \notin {"setup", "moments"} =>
        \A bid \in Bodies :
            (shapes[bid].simulated /\ shapes[bid].nelems > 0
             /\ shapes[bid].triangles # nullptr)
                => MassDefinite(shapes[bid])

\* two steps went by on a scene with a cube of density 2, whose mass is 2
C11_Witness ==
    /\ pc = "idle"
    /\ steps = 2
    /\ \E bid \in Bodies :
          /\ shapes[bid].simulated
          /\ shapes[bid].nelems = 12
          /\ shapes[bid].density = 2 * Scale
          /\ shapes[bid]._mass = 2 * Scale
          /\ shapes[bid]._mass_inv = Scale \div 2

\* the position, linear velocity or angular velocity called k of body bid
BodyVector(bid, k) ==
    IF k = "pos" THEN pos[shapes[bid].frame]
    ELSE IF k = "lin_vel" THEN shapes[bid].lin_vel
    ELSE shapes[bid].ang_vel

\* the vectors of simulated bodies that have a non-finite component
NonFiniteVectors ==
    {v \in Bodies \X {"pos", "lin_vel", "ang_vel"} :
        shapes[v[1]].simulated /\ ~VFinite(BodyVector(v[1], v[2]))}

\* C12 as stated: when the poses of a step have been advanced and a
\* position or velocity of a simulated body is non-finite, a diagnostic was
\* written in that step.
C12_DiagnosticSameStep ==
    ((pc = "refit" \/ (pc = "idle" /\ last_call = "advance_simulation"))
     /\ NonFiniteVectors # {}) => nan_lines > 0

\* C12 amended: the pose loop writes one diagnostic line for every
\* position, linear velocity and angular velocity of a simulated body that
\* is non-finite when the loop reaches the body, before the pose is
\* advanced; it leaves the velocities and every non-finite position as they
\* are, and the step goes on to the refit callback and returns with the
\* bodies unchanged.
C12_DiagnosticBeforePose ==
    /\ [][pc = "pose" =>
            /\ nan_lines' = Cardinality(NonFiniteVectors)
            /\ pc' = "refit"
            /\ \A bid \in Bodies :
                  /\ shapes'[bid].lin_vel = shapes[bid].lin_vel
                  /\ shapes'[bid].ang_vel = shapes[bid].ang_vel
                  /\ ~VFinite(pos[shapes[bid].frame])
                        => ~VFinite(pos[shapes'[bid].frame])]_vars
    /\ [][pc = "refit" =>
            /\ shapes' = shapes
            /\ nan_lines' = nan_lines
            /\ refits' = refits + 1
            /\ pc' = "idle"]_vars

\* a step returned that wrote a diagnostic and called overlap_refit
C12_Witness ==
    /\ pc = "idle"
    /\ last_call = "advance_simulation"
    /\ nan_lines > 0
    /\ refits = 1
    /\ NonFiniteVectors # {}

\* a step leaves the local list of contacts with the contacts it had: the
\* same pairs, frames and depths in the same order
SameContacts ==
    /\ Len(collisions') = Len(collisions)
    /\ \A k \in DOMAIN collisions :
          /\ collisions'[k].shapes = collisions[k].shapes
          /\ collisions'[k].frame = collisions[k].frame
          /\ collisions'[k].depth = collisions[k].depth

\* C13: the list the scene retains when a step returns is the list of the
\* contacts that step built and solved, with their solved impulses: the
\* step starts its own list empty, the solver keeps the contacts it was
\* given, the scene's list is that list from the copy on, and the list of
\* an earlier step is replaced (an empty list by an empty list).
C13_RetainedContacts ==
    /\ [](pc \in {"pose", "refit"} => scn.__collisions = collisions)
    /\ [][pc = "collide" /\ pc' # "aborted" => collisions' = <<>>]_vars
    /\ [][(pc \in {"gravity", "solve_init", "solve"}) => SameContacts]_vars
    /\ [][pc = "drag" => scn'.__collisions = collisions]_vars
    /\ [][(pc \in {"pose", "refit"}) => scn'.__collisions = collisions]_vars

\* the second step of a scene is about to return with a solved contact; the
\* list of the first step is gone
C13_Witness ==
    /\ pc = "refit"
    /\ steps = 1
    /\ Len(collisions) = 1
    /\ Gt(collisions[1].local_impulse[3], 0)
    /\ scn.__collisions = collisions

\* the builder takes the candidate pair sc to overlap_verts: one of its
\* bodies is simulated and both carry triangles
Eligible(sc) ==
    /\ shapes[sc[1]].simulated \/ shapes[sc[2]].simulated
    /\ HasTriangles(sc[1])
    /\ HasTriangles(sc[2])

RECURSIVE ExpectedCalls(_, _)
\* the arguments of the calls of overlap_verts that the first k pairs of
\* list are to cause: two for each eligible pair, the pair as listed and
\* then reversed, with the scene's overlap_max_radius
ExpectedCalls(list, k) ==
    IF k = 0 THEN <<>>
    ELSE ExpectedCalls(list, k - 1)
         \o (IF Eligible(list[k])
             THEN << <<list[k][1], list[k][2], scn.overlap_max_radius>>,
                     <<list[k][2], list[k][1], scn.overlap_max_radius>> >>
             ELSE <<>>)

\* C15: while and after the builder walks the candidate pairs, the calls of
\* overlap_verts made so far are, for each eligible pair walked and in the
\* order of the list, exactly two: (A, B) and then (B, A), each with
\* max_dist = overlap_max_radius, whatever the first call returned.
C15_TwoCallsPerPair ==
    pc \in {"pairs", "collided"} =>
        [i \in DOMAIN verts_calls |-> SubSeq(verts_calls[i], 1, 3)]
            = ExpectedCalls(shapecollisions, sc_pos)

\* the loop has ended; the first call for a pair returned no witness and
\* the second call, in the reverse order, was made and returned one
C15_Witness ==
    /\ pc = "collided"
    /\ \E i \in DOMAIN verts_calls :
          /\ i + 1 \in DOMAIN verts_calls
          /\ i % 2 = 1
          /\ verts_calls[i][4] = 0
          /\ verts_calls[i + 1][1] = verts_calls[i][2]
          /\ verts_calls[i + 1][2] = verts_calls[i][1]
          /\ verts_calls[i + 1][4] = 1

\* every contact of the step's list has zero impulses
ZeroImpulses ==
    \A k \in DOMAIN collisions :
        /\ collisions[k].impulse = zero3f
        /\ collisions[k].local_impulse = zero3f

\* C20: in every step, from the building of the contacts until the first
\* turn of the solver's outer loop begins, every contact of the step has
\* zero impulse and zero local_impulse, whatever the retained list of the
\* step before holds.
C20_NoWarmStart ==
    (pc \in {"pairs", "collided", "gravity", "solve_init"}
     \/ (pc = "solve" /\ iter = 0)) => ZeroImpulses

\* the solver of a second step is about to begin its iterations on a pair
\* for which the step before retained a contact with a non-zero impulse
C20_Witness ==
    /\ pc = "solve"
    /\ iter = 0
    /\ steps = 1
    /\ \E k \in DOMAIN collisions, j \in DOMAIN scn.__collisions :
          /\ scn.__collisions[j].shapes = collisions[k].shapes
          /\ scn.__collisions[j].local_impulse # zero3f
          /\ scn.__collisions[j].impulse # zero3f
          /\ collisions[k].local_impulse = zero3f

\* the contacts of the running step and the contacts the scene retains
AllContacts ==
    {collisions[k] : k \in DOMAIN collisions}
    \cup {scn.__collisions[k] : k \in DOMAIN scn.__collisions}

\* the friction coefficient 0.6f of the clamps
Mu == (6 * Scale) \div 10

\* C17: every contact, after every update of the solver and in the
\* retained list, has a normal impulse local_impulse[2] >= 0.
C17_NormalImpulseNonNegative ==
    \A col \in AllContacts : Le(0, col.local_impulse[3])

\* the first sweep of the solver met a contact whose bodies were separating
\* and left its normal impulse at zero
C17_Witness ==
    /\ pc = "solve"
    /\ iter = 1
    /\ collisions # <<>>
    /\ Gt(dot[collisions[1].frame[3], collisions[1].vel_before], 0)
    /\ Gt(collisions[1].meff_inv[3], 0)
    /\ collisions[1].local_impulse[3] = 0

\* C18: every contact, after every update of the solver and in the
\* retained list, has -0.6 lambda_z <= local_impulse[0] <= 0.6 lambda_z.
C18_FrictionConeX ==
    \A col \in AllContacts :
        /\ Le(Mul[Neg[col.local_impulse[3]], Mu], col.local_impulse[1])
        /\ Le(col.local_impulse[1], Mul[col.local_impulse[3], Mu])

\* a sweep of the solver left a pressing contact with its first tangential
\* impulse on the cone
C18_Witness ==
    /\ pc = "solve"
    /\ iter >= 1
    /\ \E k \in DOMAIN collisions :
          /\ Gt(collisions[k].local_impulse[3], 0)
          /\ collisions[k].local_impulse[1] # 0
          /\ \/ collisions[k].local_impulse[1]
                    = Mul[collisions[k].local_impulse[3], Mu]
             \/ collisions[k].local_impulse[1]
                    = Mul[Neg[collisions[k].local_impulse[3]], Mu]

\* C19 as stated: every contact, after every update of the solver and in
\* the retained list, has -0.6 lambda_z <= local_impulse[1] <= 0.6 lambda_z
\* (the bias being zero).
C19_FrictionConeY ==
    \A col \in AllContacts :
        /\ Le(Mul[Neg[col.local_impulse[3]], Mu], col.local_impulse[2])
        /\ Le(col.local_impulse[2], Mul[col.local_impulse[3], Mu])

\* ------------------------------------------------------------------------
\* Properties of _compute_collision on its own
\* ------------------------------------------------------------------------

\* p, the vertex of the second shape in world space
WitnessVertex(sids, overlap) ==
    transform_point[shapes[sids[2]].frame,
                    Deref(shapes[sids[2]].pos).pos[overlap.vid]]

\* n, the normal of the triangle of the first shape in world space
WitnessNormal(sids, overlap) ==
    LET triangle == Deref(shapes[sids[1]].triangles).tri[overlap.eid + 1]
    IN  transform_direction[shapes[sids[1]].frame,
            triangle_normal[Deref(shapes[sids[1]].pos).pos[triangle[1]],
                            Deref(shapes[sids[1]].pos).pos[triangle[2]],
                            Deref(shapes[sids[1]].pos).pos[triangle[3]]]]

\* the contact col was made from the witness overlap of the call for sids
FromWitness(col, sids, overlap) ==
    /\ col.shapes = sids
    /\ col.depth = overlap.dist
    /\ pos[col.frame] = WitnessVertex(sids, overlap)

\* the ways to say which witness each contact of the list came from: the
\* k-th contact from the idx[k]-th witness, in the order of the witnesses
Origins ==
    {idx \in [DOMAIN collisions -> DOMAIN args[2]] :
        /\ \A i \in DOMAIN idx, j \in DOMAIN idx : i < j => idx[i] < idx[j]
        /\ \A i \in DOMAIN idx :
              FromWitness(collisions[i], args[1], args[2][idx[i]])}

\* C14 as stated: every contact comes from a witness with
\* dot(n, normalize(p - tp)) <= -0.01, and a witness with a dot > -0.01
\* produces no contact.
C14_DotAtMostEps ==
    last_call = "_compute_collision" =>
        \E idx \in Origins :
            /\ \A i \in DOMAIN idx :
                  Le(WitnessDot(shapes, args[1], args[2][idx[i]]), eps)
            /\ \A k \in DOMAIN args[2] :
                  Gt(WitnessDot(shapes, args[1], args[2][k]), eps)
                      => \A i \in DOMAIN idx : idx[i] # k

\* C14 amended: the contacts are, in order, made from the witnesses for
\* which dot(n, normalize(p - tp)) > -0.01 does not hold, i.e. the dot is
\* <= -0.01 or is not a number; a witness with a dot > -0.01 produces no
\* contact and every other witness produces one.
C14_DotNotAboveEps ==
    last_call = "_compute_collision" =>
        \E idx \in Origins :
            \A k \in DOMAIN args[2] :
                Gt(WitnessDot(shapes, args[1], args[2][k]), eps)
                    <=> \A i \in DOMAIN idx : idx[i] # k

\* the callback returned two witnesses with finite dots, one above -0.01
\* and one below; one contact was made
C14_Witness ==
    /\ last_call = "_compute_collision"
    /\ Len(args[2]) = 2
    /\ Len(collisions) = 1
    /\ \E k \in 1..2 :
          /\ Gt(WitnessDot(shapes, args[1], args[2][k]), eps)
          /\ Lt(WitnessDot(shapes, args[1], args[2][3 - k]), eps)

\* the components of v are within 1/1000 of those of w
VClose(v, w) ==
    \A i \in 1..3 : isfinite(v[i]) /\ Abs(v[i] - w[i]) <= Scale \div 1000

\* C16: every contact the builder emits has its pair in the order of the
\* call (the shape of the triangle, then the shape of the vertex), a frame
\* with the world vertex p as origin and the world normal n of the triangle
\* (normalized once more by make_frame3_fromz) as z axis, the distance of
\* its witness as depth, and zero impulse and local_impulse.
C16_ContactRecord ==
    last_call = "_compute_collision" =>
        \E idx \in Origins :
            \A i \in DOMAIN idx :
                /\ collisions[i].shapes = args[1]
                /\ pos[collisions[i].frame]
                       = WitnessVertex(args[1], args[2][idx[i]])
                /\ collisions[i].frame[3]
                       = normalize[WitnessNormal(args[1], args[2][idx[i]])]
                /\ VFinite(WitnessNormal(args[1], args[2][idx[i]]))
                       => VClose(collisions[i].frame[3],
                                 WitnessNormal(args[1], args[2][idx[i]]))
                /\ collisions[i].depth = args[2][idx[i]].dist
                /\ collisions[i].impulse = zero3f
                /\ collisions[i].local_impulse = zero3f

\* a call for the pair (1, 0), the body of the triangles turned, made two
\* contacts from two different witnesses
C16_Witness ==
    /\ last_call = "_compute_collision"
    /\ args[1] = <<1, 0>>
    /\ shapes[1].frame = FrameTilted
    /\ Len(collisions) = 2
    /\ collisions[1].depth # collisions[2].depth
    /\ pos[collisions[1].frame] # pos[collisions[2].frame]

\* ------------------------------------------------------------------------
\* Properties of the cached mass properties and of the integrator
\* ------------------------------------------------------------------------

\* C21 as stated: once init_simulation has run, at every point of every
\* step, every body that is not simulated has inverse mass 0 and the zero
\* matrix as world inverse inertia.
C21_StaticInverseZero ==
    pc \notin {"setup", "moments"} =>
        \A bid \in Bodies :
            ~shapes[bid].simulated =>
                /\ shapes[bid]._mass_inv = 0
                /\ shapes[bid]._inertia_inv_world = zero_mat3f

\* C22 as stated: once init_simulation has run, every simulated body has
\* mass = density * volume of its mesh, as local inertia the mass times the
\* volume-normalised tensor compute_moments returns for the mesh, and as
\* local inverse inertia the inverse of that mass-weighted tensor.
C22_MassWeightedInertia ==
    pc \notin {"setup", "moments"} =>
        \A bid \in Bodies :
            shapes[bid].simulated =>
                /\ shapes[bid]._mass
                       = Mul[shapes[bid].density, ShapeMoments(shapes[bid])[1]]
                /\ shapes[bid]._inertia_local
                       = MatScale[ShapeMoments(shapes[bid])[3],
                                  shapes[bid]._mass]
                /\ shapes[bid]._inertia_inv_local
                       = inverse[MatScale[ShapeMoments(shapes[bid])[3],
                                          shapes[bid]._mass]]

\* body bid is one of the two bodies of a contact of the retained list
InContact(bid) ==
    \E k \in DOMAIN scn.__collisions :
        bid \in {scn.__collisions[k].shapes[1], scn.__collisions[k].shapes[2]}

\* the centroid of shp in world space, from its frame
CentroidOf(shp) == transform_point[shp.frame, shp._centroid_local]

\* C23: when the pose loop of a step is done, a simulated body that took
\* part in no contact of the step has
\* lin_vel = (lin_vel at entry + gravity * dt) * (1 - lin_drag),
\* ang_vel = (ang_vel at entry) * (1 - ang_drag), and its centroid is the
\* centroid at entry moved by that new lin_vel times dt.
C23_FreeBodyStep ==
    pc = "refit" =>
        \A bid \in Bodies :
            (shapes[bid].simulated /\ ~InContact(bid)) =>
                /\ shapes[bid].lin_vel
                     = VScale[VAdd[entry.step[bid].lin_vel,
                                   VScale[scn.gravity, dt]],
                              Sub[Scale, scn.lin_drag]]
                /\ shapes[bid].ang_vel
                     = VScale[entry.step[bid].ang_vel,
                              Sub[Scale, scn.ang_drag]]
                /\ CentroidOf(shapes[bid])
                     = VAdd[CentroidOf(entry.step[bid]),
                            VScale[shapes[bid].lin_vel, dt]]

\* a step has advanced a moving and spinning cube that touched nothing
C23_Witness ==
    /\ pc = "refit"
    /\ \E bid \in Bodies :
          /\ shapes[bid].simulated
          /\ ~InContact(bid)
          /\ shapes[bid].nelems = 12
          /\ entry.step[bid].lin_vel = LinMoving
          /\ entry.step[bid].ang_vel = AngMoving
          /\ rot[shapes[bid].frame] # rot[entry.step[bid].frame]
          /\ pos[shapes[bid].frame] # pos[entry.step[bid].frame]

\* body bid is simulated and the angle |ang_vel| * dt of its pose advance
\* is zero
NotTurning(bid) ==
    /\ shapes[bid].simulated
    /\ Mul[length[shapes[bid].ang_vel], dt] = 0

\* C24 as stated: the pose advance of a simulated body whose angular
\* velocity has zero length leaves the rotation of its frame unchanged and
\* changes the translation by exactly lin_vel * dt.
C24_TranslationExact ==
    [][pc = "pose" =>
        \A bid \in Bodies :
            NotTurning(bid) =>
                /\ rot[shapes'[bid].frame] = rot[shapes[bid].frame]
                /\ pos[shapes'[bid].frame]
                     = VAdd[pos[shapes[bid].frame],
                            VScale[shapes[bid].lin_vel, dt]]]_vars

\* C24 amended: the pose advance of such a body leaves the rotation R of
\* its frame unchanged and sets the translation to
\* (R * centroid_local + t + lin_vel * dt) - R * centroid_local, which is
\* t + lin_vel * dt when the cached local centroid is zero.
C24_TranslationAboutCentroid ==
    [][pc = "pose" =>
        \A bid \in Bodies :
            NotTurning(bid) =>
                /\ rot[shapes'[bid].frame] = rot[shapes[bid].frame]
                /\ pos[shapes'[bid].frame]
                     = VSub[VAdd[CentroidOf(shapes[bid]),
                                 VScale[shapes[bid].lin_vel, dt]],
                            MatVec[rot[shapes[bid].frame],
                                   shapes[bid]._centroid_local]]
                /\ (shapes[bid]._centroid_local = zero3f
                    /\ MatFinite(rot[shapes[bid].frame]))
                       => pos[shapes'[bid].frame]
                            = VAdd[pos[shapes[bid].frame],
                                   VScale[shapes[bid].lin_vel, dt]]]_vars

\* the pose loop has moved a cube that was given a linear velocity and a
\* zero angular velocity
C24_Witness ==
    /\ pc = "refit"
    /\ \E bid \in Bodies :
          /\ shapes[bid].simulated
          /\ shapes[bid].nelems = 12
          /\ shapes[bid].ang_vel = zero3f
          /\ shapes[bid].lin_vel # zero3f
          /\ VFinite(pos[shapes[bid].frame])
          /\ rot[shapes[bid].frame] = rot[entry.step[bid].frame]
          /\ pos[shapes[bid].frame] # pos[entry.step[bid].frame]

\* C25: the pose advance of a simulated body turns it about its centroid:
\* the centroid of the new frame, R' * centroid_local + t', is the centroid
\* of the old frame moved by lin_vel * dt, whatever the angular velocity.
C25_RotationAboutCentroid ==
    [][pc = "pose" =>
        \A bid \in Bodies :
            shapes[bid].simulated =>
                CentroidOf(shapes'[bid])
                    = VAdd[CentroidOf(shapes[bid]),
                           VScale[shapes[bid].lin_vel, dt]]]_vars

\* the pose loop has turned a body whose centroid is off the origin of its
\* frame
C25_Witness ==
    /\ pc = "refit"
    /\ VFinite(shapes[0]._centroid_local)
    /\ shapes[0]._centroid_local # zero3f
    /\ shapes[0].ang_vel # zero3f
    /\ shapes[0].lin_vel # zero3f
    /\ MatVec[rot[shapes[0].frame], shapes[0]._centroid_local]
           # shapes[0]._centroid_local
    /\ VFinite(pos[shapes[0].frame])

RECURSIVE VisitFrom(_, _, _)
\* the bodies and the contacts after one update of each of the contacts
\* k, k + 1, ... of cols, in that order
VisitFrom(shps, cols, k) ==
    IF k > Len(cols) THEN <<shps, cols>>
    ELSE LET r == solve_contact(shps, cols[k])
         IN  VisitFrom(r[1], [cols EXCEPT ![k] = r[2]], k + 1)

\* C26: the solver makes scn.iterations sweeps and then returns: the sweep
\* counter never passes scn.iterations, every sweep updates each contact
\* once in the order of the list, the solver leaves its loop exactly when
\* the counter is scn.iterations, no step of the solver changes the length,
\* the order, the pairs or the frames of the list, and a solver that was
\* entered does return.
C26_SolverSweeps ==
    /\ [](pc = "solve" => iter \in 0..scn.iterations)
    /\ [][pc = "solve_init" =>
            pc' = "solve" /\ iter' = 0 /\ SameContacts]_vars
    /\ [][(pc = "solve" /\ iter < scn.iterations) =>
            /\ pc' = "solve"
            /\ iter' = iter + 1
            /\ SameContacts
            /\ <<shapes', collisions'>> = VisitFrom(shapes, collisions, 1)]_vars
    /\ [][(pc = "solve" /\ iter = scn.iterations) =>
            pc' = "drag" /\ shapes' = shapes /\ SameContacts]_vars
    /\ (pc = "solve_init") ~> (pc = "drag")

\* the solver has made all its sweeps over two contacts that share their
\* bodies, with impulses at work
C26_Witness ==
    /\ pc = "solve"
    /\ iter = scn.iterations
    /\ iter = 20
    /\ Len(collisions) = 2
    /\ collisions[1].shapes = <<collisions[2].shapes[2], collisions[2].shapes[1]>>
    /\ collisions[1].local_impulse # zero3f
    /\ collisions[2].local_impulse # zero3f

\* the step is between its first loop and its pose loop: contacts are being
\* built or solved
BuildingOrSolving ==
    pc \in {"collide", "pairs", "collided", "gravity", "solve_init", "solve"}

\* C27: while a step builds and solves its contacts, every simulated body
\* has the frame it had on entry to the step, a world centroid that is its
\* local centroid transformed by that frame, and a world inverse inertia
\* R * local inverse inertia * R^T with R the rotation of that frame.
C27_CachesFromEntryFrame ==
    BuildingOrSolving =>
        \A bid \in Bodies :
            shapes[bid].simulated =>
                /\ shapes[bid].frame = entry.step[bid].frame
                /\ shapes[bid]._centroid_world
                     = transform_point[entry.step[bid].frame,
                                       shapes[bid]._centroid_local]
                /\ shapes[bid]._inertia_inv_world
                     = MatMul[MatMul[rot[entry.step[bid].frame],
                                     shapes[bid]._inertia_inv_local],
                              transpose[rot[entry.step[bid].frame]]]

\* the solver of a second step runs on a cube whose frame set_body_frame
\* wrote after the first step, a frame the first step had turned
C27_Witness ==
    /\ pc = "solve"
    /\ steps = 1
    /\ nsets = 1
    /\ collisions # <<>>
    /\ \E bid \in Bodies :
          /\ shapes[bid].simulated
          /\ shapes[bid].nelems = 12
          /\ shapes[bid].frame = FrameAside
          /\ shapes[bid]._centroid_world = pos[FrameAside]
          /\ shapes[bid]._inertia_inv_world # identity_mat3f

RECURSIVE ContactsOf(_, _, _, _)
\* the contacts _compute_collisions builds from the first k pairs, wits[i]
\* being the two lists overlap_verts returned for pair i
ContactsOf(shps, pairs, wits, k) ==
    IF k = 0 THEN <<>>
    ELSE LET sc == pairs[k]
         IN  ContactsOf(shps, pairs, wits, k - 1)
             \o (IF PairSkipped(shps, sc) THEN <<>>
                 ELSE _compute_collision(shps, sc, wits[k][1])
                      \o _compute_collision(shps, <<sc[2], sc[1]>>,
                                            wits[k][2]))

RECURSIVE SweepsOf(_, _, _)
\* <<shapes, collisions>> after n more turns of the outer loop of the
\* solver; a turn over no contact does nothing
SweepsOf(shps, cols, n) ==
    IF n = 0 \/ cols = <<>> THEN <<shps, cols>>
    ELSE LET swept == SolveSweep(shps, cols, Len(cols))
         IN  SweepsOf(swept[1], swept[2], n - 1)

\* <<shapes, contacts>> after the solver of a step on the bodies shps that
\* have gravity applied, with the contacts cols as they were built
SolvedFrom(shps, cols, iterations) ==
    LET started == [k \in DOMAIN cols |-> solve_init(shps, cols[k])]
        swept == SweepsOf(shps, started, iterations)
    IN  <<swept[1],
          [k \in DOMAIN cols |-> solve_end(swept[1], swept[2][k])]>>

\* the bodies after the first loop of a step
Centred(shps) == [bid \in DOMAIN shps |-> update_centroid(shps[bid])]

\* <<shapes, contacts>> at the end of the pose loop of a step as a function
\* of the bodies on entry, the parameters of the scene, dt and the contacts
\* _compute_collisions built
StepFrom(shps, s, d, built) ==
    LET pulled == [bid \in DOMAIN shps |->
                     apply_gravity(Centred(shps)[bid], VScale[s.gravity, d])]
        solved == SolvedFrom(pulled, built, s.iterations)
    IN  <<[bid \in DOMAIN shps |->
             advance_pose(apply_drag(solved[1][bid], s.lin_drag, s.ang_drag),
                          d)],
          solved[2]>>

\* C28: the bodies and the retained contacts a step ends with are a function
\* of the bodies on entry, the parameters of the scene, dt and the lists the
\* callbacks returned, in the order they returned them; nothing else the
\* scene holds, the contacts retained from the step before included, has a
\* part in it.  Two scenes that agree on these therefore end the step equal.
C28_StepDeterminedByInputs ==
    /\ pc = "collided" =>
          collisions = ContactsOf(Centred(entry.step), entry.pairs,
                                  entry.wits, Len(entry.pairs))
    /\ pc = "refit" =>
          <<shapes, scn.__collisions>>
              = StepFrom(entry.step, scn, dt, entry.built)

\* a second step has run its pose loop; the step before retained contacts
\* and this one solved a contact with a non-zero impulse
C28_Witness ==
    /\ pc = "refit"
    /\ steps = 1
    /\ entry.built # <<>>
    /\ \E k \in DOMAIN scn.__collisions :
          scn.__collisions[k].local_impulse # zero3f
    /\ \E bid \in Bodies : shapes[bid].frame # entry.step[bid].frame

RECURSIVE ImpulseSum(_, _, _, _)
\* what the accumulated impulses of the first k contacts have added to the
\* linear velocity of body bid of inverse mass mass_inv: impulse * mass_inv
\* for a contact it is the second body of, -impulse * mass_inv for a contact
\* it is the first body of
ImpulseSum(bid, mass_inv, cols, k) ==
    IF k = 0 THEN zero3f
    ELSE VAdd[VAdd[ImpulseSum(bid, mass_inv, cols, k - 1),
                   IF cols[k].shapes[2] = bid
                   THEN VScale[cols[k].impulse, mass_inv] ELSE zero3f],
              IF cols[k].shapes[1] = bid
              THEN VScale[VNeg[cols[k].impulse], mass_inv] ELSE zero3f]

\* the linear velocity body bid has by the books of the contacts cols
BookVelocity(bid, shp, cols) ==
    VAdd[entry.solver[bid].lin_vel,
         ImpulseSum(bid, shp._mass_inv, cols, Len(cols))]

\* every simulated body has the linear velocity the books give it
Bookkept(shps, cols) ==
    \A bid \in DOMAIN shps :
        shps[bid].simulated =>
            shps[bid].lin_vel = BookVelocity(bid, shps[bid], cols)

\* the first pair of _apply_rel_impulse of the update of contact k leaves
\* its bodies with the velocity the books of the other contacts give
UndoCancels(shps, cols, k) ==
    LET col == cols[k]
        others == [cols EXCEPT ![k].impulse = zero3f]
        a == col.shapes[1]
        b == col.shapes[2]
    IN  /\ shps[a].simulated =>
              _apply_rel_impulse(shps[a], col.impulse,
                                 ContactArm(shps, col, 1)).lin_vel
                  = BookVelocity(a, shps[a], others)
        /\ shps[b].simulated =>
              _apply_rel_impulse(shps[b], VNeg[col.impulse],
                                 ContactArm(shps, col, 2)).lin_vel
                  = BookVelocity(b, shps[b], others)

\* the total linear momentum of two bodies
Momentum(shps) ==
    VAdd[VScale[shps[0].lin_vel, shps[0]._mass],
         VScale[shps[1].lin_vel, shps[1]._mass]]

\* when both bodies are simulated the total linear momentum is the one on
\* entry to the solver, up to the one rounding of impulse * mass_inv a
\* contact brings
MomentumKept(shps, cols) ==
    (shps[0].simulated /\ shps[1].simulated) =>
        \A i \in 1..3 :
            Abs(Sub[Momentum(shps)[i], Momentum(entry.solver)[i]])
                <= Len(cols)

\* the contact updates the running or coming sweep of the solver has made
\* or will make: none when the outer loop has ended
UpdatesAhead ==
    IF pc = "solve" /\ iter < scn.iterations THEN 0..Len(collisions)
    ELSE IF pc = "solve" THEN {0}
    ELSE {}

\* C29: with sums taken exactly, at the end of every contact update of the
\* solver every simulated body has the linear velocity lin_vel on entry to
\* the solver + the sum of impulse * mass_inv over the contacts it is the
\* second body of - the same sum over the contacts it is the first body of;
\* the first pair of _apply_rel_impulse of an update takes back exactly what
\* the contact had added; and between two simulated bodies the total linear
\* momentum stays what it was on entry.
C29_ImpulseBookkeeping ==
    \A k \in UpdatesAhead :
        LET r == SolveSweep(shapes, collisions, k)
        IN  /\ Bookkept(r[1], r[2])
            /\ MomentumKept(r[1], r[2])
            /\ k < Len(collisions) => UndoCancels(r[1], r[2], k + 1)

\* the solver has gone through a sweep of two contacts between two
\* simulated cubes, both with an impulse, that changed their velocities
C29_Witness ==
    /\ pc = "solve"
    /\ iter >= 2
    /\ Len(collisions) = 2
    /\ shapes[0].simulated /\ shapes[1].simulated
    /\ collisions[1].impulse # zero3f
    /\ collisions[2].impulse # zero3f
    /\ shapes[0].lin_vel # entry.solver[0].lin_vel
    /\ shapes[1].lin_vel # entry.solver[1].lin_vel

\* what a step is to leave alone of a body: density, simulated flag,
\* geometry bindings and the mass properties init_simulation caches
BodyKept(shp) ==
    <<shp.density, shp.simulated, shp.nelems, shp.triangles, shp.nverts,
      shp.pos, shp._mass, shp._mass_inv, shp._centroid_local,
      shp._inertia_local, shp._inertia_inv_local>>

\* what a step is to leave alone of the scene: its parameters and the
\* callback bindings
SceneKept(s) ==
    <<s.gravity, s.lin_drag, s.ang_drag, s.iterations, s.overlap_max_radius,
      s.overlap_ctx, s.overlap_shapes, s.overlap_shape, s.overlap_verts,
      s.overlap_refit>>

\* C30: every transition of a running advance_simulation, its entry and its
\* return included, keeps the body table as long as it was and leaves of
\* every body density, simulated flag, triangle and vertex arrays and counts,
\* mass, inverse mass, local centroid, local inertia and local inverse
\* inertia, and of the scene gravity, the drags, the iteration count, the
\* overlap radius and the callback bindings, as they were.
C30_StepWritesOnlyMotion ==
    [][(InStep \/ (pc = "idle" /\ pc' = "collide")) =>
          /\ DOMAIN shapes' = DOMAIN shapes
          /\ \A bid \in Bodies : BodyKept(shapes'[bid]) = BodyKept(shapes[bid])
          /\ SceneKept(scn') = SceneKept(scn)]_vars

\* the last step the model takes has returned: it moved and turned a
\* simulated cube, changed both its velocities and retained a solved contact
C30_Witness ==
    /\ pc = "idle"
    /\ steps = MaxSteps
    /\ \E k \in DOMAIN scn.__collisions :
          scn.__collisions[k].local_impulse # zero3f
    /\ \E bid \in Bodies :
          /\ shapes[bid].simulated
          /\ shapes[bid].nelems = 12
          /\ pos[shapes[bid].frame] # pos[entry.step[bid].frame]
          /\ rot[shapes[bid].frame] # rot[entry.step[bid].frame]
          /\ shapes[bid].lin_vel # entry.step[bid].lin_vel
          /\ shapes[bid].ang_vel # entry.step[bid].ang_vel
          /\ BodyKept(shapes[bid]) = BodyKept(entry.step[bid])

====
